---- MODULE Spec2Model ----
(***************************************************************************)
(* The booking demo's four Express/SQLite services, its gateway and the    *)
(* storefront's AuthProvider as state machines:                            *)
(*   booking service      src/unnamed/part_006                             *)
(*   user service         src/services/user-service/server.js              *)
(*   payment service      src/services/payment-service/server.js           *)
(*   notification service src/services/notification-service/server.js      *)
(*   api gateway          src/unnamed/part_002                             *)
(*   AuthProvider         src/src/contexts/AuthContext.tsx                 *)
(* Every HTTP handler is split at the points where the code hands control  *)
(* back to the event loop (a sqlite3 callback, an awaited promise, an      *)
(* axios call); each piece is one action.  A SQL statement executes        *)
(* atomically at the step that consumes its callback.  Money is kept in    *)
(* cents.                                                                  *)
(***************************************************************************)
EXTENDS Integers, Sequences, FiniteSets, TLC

VARIABLES
    available_slots,  \* services.available_slots, by service id
    bookings,         \* the bookings table: row i has id i
    bk,               \* POST /bookings requests, by request
    slots0,           \* history: available_slots when the run started
    putRes,           \* the response of the latest PUT /bookings/:id/...
    notifications,    \* the notifications table: row i has id i
    snd,              \* POST /send requests, by request
    markRes,          \* the response of the latest PUT /notifications/:id/read
    now,              \* the clock CURRENT_TIMESTAMP reads, in seconds
    st,               \* the GET /stats request
    users,            \* the users table: row i has id i
    reg,              \* POST /register requests, by request
    tokens,           \* the payloads of the session tokens issued so far
    profileRes,       \* the response of the latest PUT /profile
    getProfileRes,    \* the response of the latest GET /profile
    lg,               \* POST /login requests, by request
    payments,         \* the payments table: row i has id i
    pay,              \* POST /process requests, by request
    rf,               \* POST /refund/:paymentId requests, by request
    gw,               \* the requests the gateway proxies, by request
    auth,             \* storefront AuthProvider: user, token, loading, and
                      \* axios.defaults.headers.common['Authorization']
    localStorage,     \* the browser's localStorage: the items token and user
    authCalls         \* the login() and register() calls, by call

vars ==
    <<available_slots, bookings, bk, slots0, putRes, notifications, snd,
      markRes, now, st, users, reg, tokens, profileRes, getProfileRes, lg, payments, pay, rf,
      gw, auth, localStorage, authCalls>>

bookingVars == <<available_slots, bookings, bk, slots0, putRes>>
notificationVars == <<notifications, snd, markRes, now, st>>
userVars == <<users, reg, tokens, profileRes, getProfileRes, lg>>
paymentVars == <<payments, pay, rf>>
gatewayVars == <<gw>>
storefrontVars == <<auth, localStorage, authCalls>>

\* ------------------------------------------------------------------ bounds

\* POST /bookings requests in one run
NumBookingReqs == 2

\* POST /send requests in one run
NumSendReqs == 2

\* POST /register requests in one run
NumRegisterReqs == 2

\* POST /process requests in one run
NumProcessReqs == 2

\* POST /refund/:paymentId requests in one run
NumRefundReqs == 2

\* POST /login requests in one run
NumLoginReqs == 2

\* requests that reach the gateway in one run
NumGatewayReqs == 2

\* the clock stops advancing here
MaxTime == 2

NoRes == [status |-> 0]

\* -------------------------------------------------- notification service

\* the keys of emailTemplates, which are also the values isIn() accepts
NotificationTypes ==
    {"booking_created", "payment_success", "payment_failed", "payment_refunded"}

\* read_at of a row that was never marked read (SQL NULL)
Unread == -1

\* a booking_id or payment_id column that is NULL
NoId == 0

SendReqs == 1..NumSendReqs

\* request bodies: a type outside the templates, a user id below the minimum
SendBodies ==
    [userId : {0, 1}, type : {"booking_created", "payment_success", "promo"},
     bookingId : {1}, paymentId : {NoId}]

IdleSend ==
    [pc |-> "idle", userId |-> 0, type |-> "", bookingId |-> NoId,
     paymentId |-> NoId, emailSent |-> FALSE, res |-> NoRes]

\* a chain that checks the user id only
ValidSendAnyType(body) == body.userId >= 1

\* the express-validator chain of POST /send and the template lookup
ValidSend(body) ==
    /\ body.userId >= 1
    /\ body.type \in NotificationTypes

\* an INSERT that stores 'sent' whatever sendEmail returned
NotificationRowAlwaysSent(userId, type, bookingId, paymentId, emailSent) ==
    [user_id |-> userId, type |-> type, booking_id |-> bookingId,
     payment_id |-> paymentId, status |-> "sent", read_at |-> Unread]

\* INSERT INTO notifications (...): 'sent' or 'failed' by the email outcome
NotificationRow(userId, type, bookingId, paymentId, emailSent) ==
    [user_id |-> userId, type |-> type, booking_id |-> bookingId,
     payment_id |-> paymentId,
     status |-> IF emailSent THEN "sent" ELSE "failed",
     read_at |-> Unread]

\* UPDATE notifications SET read_at = CURRENT_TIMESTAMP WHERE id = ?
SetReadAt(rows, id, time) ==
    [i \in 1..Len(rows) |->
        IF i = id THEN [rows[i] EXCEPT !.read_at = time] ELSE rows[i]]

\* The handler up to the await of sendEmail.  Requests are numbered in their
\* order of arrival.
PostSend(r, body) ==
    /\ snd[r].pc = "idle"
    /\ \A q \in 1..(r - 1) : snd[q].pc # "idle"
    /\ snd' = [snd EXCEPT ![r] =
            IF ValidSend(body)
            THEN [@ EXCEPT !.pc = "sendEmail", !.userId = body.userId,
                    !.type = body.type, !.bookingId = body.bookingId,
                    !.paymentId = body.paymentId]
            ELSE [@ EXCEPT !.pc = "done", !.userId = body.userId,
                    !.type = body.type,
                    !.res = [status |-> 400, error |-> "validation"]]]
    /\ UNCHANGED <<paymentVars, userVars, bookingVars, notifications, markRes, now, st,
                   gatewayVars, storefrontVars>>

\* sendEmail resolves (Math.random() > 0.02) and the INSERT is issued
SendEmailResolved(r, emailSent) ==
    /\ snd[r].pc = "sendEmail"
    /\ snd' = [snd EXCEPT ![r] = [@ EXCEPT !.pc = "insert",
                                            !.emailSent = emailSent]]
    /\ UNCHANGED <<paymentVars, userVars, bookingVars, notifications, markRes, now, st,
                   gatewayVars, storefrontVars>>

\* The INSERT and its callback, which sends the response
InsertNotificationCallback(r) ==
    /\ snd[r].pc = "insert"
    /\ notifications' = Append(notifications,
            NotificationRow(snd[r].userId, snd[r].type, snd[r].bookingId,
                            snd[r].paymentId, snd[r].emailSent))
    /\ snd' = [snd EXCEPT ![r] = [@ EXCEPT !.pc = "done",
            !.res = [status |-> 200, success |-> snd[r].emailSent,
                     notificationId |-> Len(notifications) + 1,
                     type |-> snd[r].type]]]
    /\ UNCHANGED <<paymentVars, userVars, bookingVars, markRes, now, st, gatewayVars, storefrontVars>>

\* PUT /notifications/:id/read: the UPDATE and its callback
MarkRead(id) ==
    /\ notifications' = SetReadAt(notifications, id, now)
    /\ markRes' = IF id \in 1..Len(notifications)
                  THEN [status |-> 200, id |-> id]
                  ELSE [status |-> 404, id |-> id]
    /\ UNCHANGED <<paymentVars, userVars, bookingVars, snd, now, st, gatewayVars, storefrontVars>>

\* A second passes
Tick ==
    /\ now < MaxTime
    /\ now' = now + 1
    /\ UNCHANGED <<paymentVars, userVars, bookingVars, notifications, snd, markRes, st,
                   gatewayVars, storefrontVars>>

\* the four queries of GET /stats
StatsQueries == {"total", "sent", "failed", "byType"}

NoCounts == [total |-> 0, sent |-> 0, failed |-> 0, byType |-> <<>>]

IdleStats == [pc |-> "idle", pending |-> {}, results |-> NoCounts, res |-> NoRes]

\* SELECT COUNT(*) FROM notifications WHERE status = ?
CountStatus(rows, status) ==
    Cardinality({i \in 1..Len(rows) : rows[i].status = status})

\* SELECT type, COUNT(*) as count FROM notifications GROUP BY type
CountByType(rows) ==
    [t \in {rows[i].type : i \in 1..Len(rows)} |->
        Cardinality({i \in 1..Len(rows) : rows[i].type = t})]

\* what one of the queries returns on the table as it is when it executes
StatsQuery(query, rows) ==
    CASE query = "total" -> Len(rows)
      [] query = "sent" -> CountStatus(rows, "sent")
      [] query = "failed" -> CountStatus(rows, "failed")
      [] query = "byType" -> CountByType(rows)

\* GET /stats: the four db.all calls are issued
GetStats ==
    /\ st.pc = "idle"
    /\ st' = [st EXCEPT !.pc = "queries", !.pending = StatsQueries]
    /\ UNCHANGED <<paymentVars, userVars, bookingVars, notifications, snd,
                   markRes, now, gatewayVars, storefrontVars>>

\* One of the pending queries executes and its promise resolves.  The
\* database is in parallel mode, so the queries and the statements of other
\* requests execute in no fixed order.  With the last result Promise.all
\* resolves and the response is sent.
StatsQueryCallback(query) ==
    /\ st.pc = "queries"
    /\ query \in st.pending
    /\ LET results == [st.results EXCEPT
                            ![query] = StatsQuery(query, notifications)]
       IN  st' = IF st.pending = {query}
                 THEN [pc |-> "done", pending |-> {}, results |-> results,
                       res |-> [status |-> 200, total |-> results.total,
                                sent |-> results.sent,
                                failed |-> results.failed,
                                byType |-> results.byType]]
                 ELSE [st EXCEPT !.pending = @ \ {query},
                                 !.results = results]
    /\ UNCHANGED <<paymentVars, userVars, bookingVars, notifications, snd,
                   markRes, now, gatewayVars, storefrontVars>>

\* ----------------------------------------------------------- user service

RegisterReqs == 1..NumRegisterReqs

\* email strings a client sends: two spellings of one address, another
\* address, and a string that is no address
EmailInputs == {"a@x.com", "A@X.com", "b@x.com", "nobody"}

\* isEmail()
IsEmail(e) == e \in {"a@x.com", "A@X.com", "b@x.com"}

\* normalizeEmail(): the address in lower case
NormalizeEmail(e) == IF e = "A@X.com" THEN "a@x.com" ELSE e

\* the length of the password and (trimmed) name strings a client sends
StrLen(str) ==
    CASE str = "" -> 0
      [] str = "abc" -> 3
      [] str = "secret1" -> 7
      [] str = "Al" -> 2
      [] str = "Bo" -> 2
      [] OTHER -> 1

\* isLength({ min: 6 }) of the password, isLength({ min: 2 }) of the name
MinPasswordLen == 6
MinNameLen == 2

\* request bodies of POST /register
RegisterBodies ==
    [email : EmailInputs, password : {"secret1"}, name : {"Al"}]
        \cup {[email |-> "b@x.com", password |-> "abc", name |-> "Al"]}

\* request bodies of PUT /profile; "" is a field the body leaves out
ProfileBodies == [name : {"", "Bo"}, email : {"", "b@x.com", "A@X.com"}]

NoRegisterBody == [email |-> "", password |-> "", name |-> ""]

IdleRegister ==
    [pc |-> "idle", body |-> NoRegisterBody, email |-> "", afterSuccess |-> FALSE,
     res |-> NoRes]

LoginReqs == 1..NumLoginReqs

\* request bodies of POST /login
LoginBodies == [email : EmailInputs, password : {"secret1", "abc"}]

NoUser == [found |-> FALSE, id |-> 0, email |-> "", password |-> <<>>, name |-> ""]

IdleLogin ==
    [pc |-> "idle", body |-> [email |-> "", password |-> ""], email |-> "",
     user |-> NoUser, res |-> NoRes]

\* the express-validator chain of POST /register
ValidRegister(body) ==
    /\ IsEmail(body.email)
    /\ StrLen(body.password) >= MinPasswordLen
    /\ StrLen(body.name) >= MinNameLen

\* a lookup that never finds a row
FindUserByEmailNone(rows, email) == {}

\* SELECT ... FROM users WHERE email = ?: the ids of the matching rows
FindUserByEmail(rows, email) ==
    {i \in 1..Len(rows) : rows[i].email = email}

\* bcrypt.hash(password, 10)
BcryptHash(password) == <<"bcrypt", password>>

\* jwt.sign({ userId, email, name }, JWT_SECRET, ...)
JwtSign(userId, email, name) ==
    [userId |-> userId, email |-> email, name |-> name]

\* a users table without the UNIQUE constraint on email
EmailsUnconstrained(rows) == TRUE

\* the UNIQUE constraint on users.email: would the table still satisfy it
EmailsUnique(rows) ==
    \A i, j \in 1..Len(rows) : rows[i].email = rows[j].email => i = j

\* UPDATE users SET name = ?, email = ? WHERE id = ?, with only the fields
\* the body supplies
UpdateUser(rows, id, body) ==
    [i \in 1..Len(rows) |->
        IF i = id
        THEN [rows[i] EXCEPT
                !.name = IF body.name # "" THEN body.name ELSE @,
                !.email = IF body.email # ""
                          THEN NormalizeEmail(body.email) ELSE @]
        ELSE rows[i]]

\* history: some Register with this (normalized) email has succeeded
RegisteredBefore(email) ==
    \E q \in RegisterReqs : reg[q].res.status = 201 /\ reg[q].email = email

\* The handler up to db.get: validation and normalizeEmail.  Requests are
\* numbered in their order of arrival.
PostRegister(r, body) ==
    /\ reg[r].pc = "idle"
    /\ \A q \in 1..(r - 1) : reg[q].pc # "idle"
    /\ reg' = [reg EXCEPT ![r] =
            IF ValidRegister(body)
            THEN [@ EXCEPT !.pc = "select", !.body = body,
                    !.email = NormalizeEmail(body.email),
                    !.afterSuccess =
                        RegisteredBefore(NormalizeEmail(body.email))]
            ELSE [@ EXCEPT !.pc = "done", !.body = body,
                    !.res = [status |-> 400, error |-> "validation"]]]
    /\ UNCHANGED <<users, tokens, profileRes, getProfileRes, lg, bookingVars,
                   notificationVars, paymentVars, gatewayVars, storefrontVars>>

\* The db.get callback: 400 when a row has the email; otherwise the password
\* is hashed and the INSERT is issued
SelectUserCallback(r) ==
    /\ reg[r].pc = "select"
    /\ reg' = [reg EXCEPT ![r] =
            IF FindUserByEmail(users, reg[r].email) # {}
            THEN [@ EXCEPT !.pc = "done",
                    !.res = [status |-> 400, error |-> "User already exists"]]
            ELSE [@ EXCEPT !.pc = "insert"]]
    /\ UNCHANGED <<users, tokens, profileRes, getProfileRes, lg, bookingVars,
                   notificationVars, paymentVars, gatewayVars, storefrontVars>>

\* The INSERT and its callback: 500 when the UNIQUE constraint rejects the
\* row, otherwise the token is signed and the 201 response sent
InsertUserCallback(r) ==
    /\ reg[r].pc = "insert"
    /\ LET row == [email |-> reg[r].email,
                   password |-> BcryptHash(reg[r].body.password),
                   name |-> reg[r].body.name]
           lastID == Len(users) + 1
           token == JwtSign(lastID, reg[r].email, reg[r].body.name)
       IN  IF EmailsUnique(Append(users, row))
           THEN /\ users' = Append(users, row)
                /\ tokens' = tokens \cup {token}
                /\ reg' = [reg EXCEPT ![r] = [@ EXCEPT !.pc = "done",
                        !.res = [status |-> 201, token |-> token,
                                 user |-> [id |-> lastID,
                                           email |-> reg[r].email,
                                           name |-> reg[r].body.name]]]]
           ELSE /\ reg' = [reg EXCEPT ![r] = [@ EXCEPT !.pc = "done",
                        !.res = [status |-> 500,
                                 error |-> "Failed to create user"]]]
                /\ UNCHANGED <<users, tokens>>
    /\ UNCHANGED <<profileRes, getProfileRes, lg, bookingVars, notificationVars,
                   paymentVars, gatewayVars, storefrontVars>>

\* A token that jwt.verify accepts although no row has its id: it was signed
\* with the same JWT_SECRET for an account of a users.db that has since been
\* replaced, and its id lies past every row this run inserts
StaleToken == JwtSign(NumRegisterReqs + 1, "a@x.com", "Al")

\* authenticateToken: the payloads jwt.verify accepts
VerifyingTokens == tokens \cup {StaleToken}

\* GET /profile: SELECT id, email, name, created_at FROM users WHERE id = ?
GetProfile(token) ==
    /\ token \in VerifyingTokens
    /\ getProfileRes' =
            IF token.userId \in 1..Len(users)
            THEN [status |-> 200,
                  user |-> [id |-> token.userId,
                            email |-> users[token.userId].email,
                            name |-> users[token.userId].name]]
            ELSE [status |-> 404, error |-> "User not found"]
    /\ UNCHANGED <<users, reg, tokens, profileRes, lg, bookingVars,
                   notificationVars, paymentVars, gatewayVars, storefrontVars>>

\* the express-validator chain of PUT /profile: both fields are optional
ValidProfile(body) ==
    /\ body.name = "" \/ StrLen(body.name) >= MinNameLen
    /\ body.email = "" \/ IsEmail(body.email)

\* PUT /profile with a token that verifies: validation, the UPDATE and its
\* callback
PutProfile(token, body) ==
    /\ token \in VerifyingTokens
    /\ IF ~ValidProfile(body)
       THEN /\ profileRes' = [status |-> 400, error |-> "validation"]
            /\ users' = users
       ELSE IF body.name = "" /\ body.email = ""
       THEN /\ profileRes' = [status |-> 400,
                              error |-> "No valid fields to update"]
            /\ users' = users
       ELSE IF ~EmailsUnique(UpdateUser(users, token.userId, body))
       THEN /\ profileRes' = [status |-> 500,
                              error |-> "Failed to update profile"]
            /\ users' = users
       ELSE /\ profileRes' = [status |-> 200,
                              message |-> "Profile updated successfully"]
            /\ users' = UpdateUser(users, token.userId, body)
    /\ UNCHANGED <<reg, tokens, getProfileRes, lg, bookingVars, notificationVars,
                   paymentVars, gatewayVars, storefrontVars>>

\* the express-validator chain of POST /login; both passwords exist()
ValidLogin(body) == IsEmail(body.email)

\* SELECT * FROM users WHERE email = ?
SelectUserByEmail(rows, email) ==
    LET hit == FindUserByEmail(rows, email)
    IN  IF hit = {} THEN NoUser
        ELSE LET id == CHOOSE i \in hit : TRUE
             IN  [found |-> TRUE, id |-> id, email |-> rows[id].email,
                  password |-> rows[id].password, name |-> rows[id].name]

\* bcrypt.compare(password, user.password)
BcryptCompare(password, hash) == hash = BcryptHash(password)

\* an answer that tells the caller no account has the email
UnknownEmailRevealed == [status |-> 404, error |-> "User not found"]

\* if (!user) return res.status(401).json({ error: 'Invalid credentials' })
UnknownEmailResponse == [status |-> 401, error |-> "Invalid credentials"]

\* if (!isValidPassword) return res.status(401).json(...)
WrongPasswordResponse == [status |-> 401, error |-> "Invalid credentials"]

\* The handler up to db.get: validation and normalizeEmail.  Requests are
\* numbered in their order of arrival.
PostLogin(r, body) ==
    /\ lg[r].pc = "idle"
    /\ \A q \in 1..(r - 1) : lg[q].pc # "idle"
    /\ lg' = [lg EXCEPT ![r] =
            IF ValidLogin(body)
            THEN [@ EXCEPT !.pc = "select", !.body = body,
                    !.email = NormalizeEmail(body.email)]
            ELSE [@ EXCEPT !.pc = "done", !.body = body,
                    !.res = [status |-> 400, error |-> "validation"]]]
    /\ UNCHANGED <<users, reg, tokens, profileRes, getProfileRes, bookingVars,
                   notificationVars, paymentVars, gatewayVars, storefrontVars>>

\* The db.get callback: 401 without a row, otherwise bcrypt.compare is awaited
SelectLoginCallback(r) ==
    /\ lg[r].pc = "select"
    /\ LET user == SelectUserByEmail(users, lg[r].email)
       IN  lg' = [lg EXCEPT ![r] =
                IF ~user.found
                THEN [@ EXCEPT !.pc = "done", !.res = UnknownEmailResponse]
                ELSE [@ EXCEPT !.pc = "compare", !.user = user]]
    /\ UNCHANGED <<users, reg, tokens, profileRes, getProfileRes, bookingVars,
                   notificationVars, paymentVars, gatewayVars, storefrontVars>>

\* bcrypt.compare resolves: 401 on a mismatch, otherwise the token is signed
\* from the row the lookup read and the 200 response sent
CompareResolved(r) ==
    /\ lg[r].pc = "compare"
    /\ LET user == lg[r].user
           token == JwtSign(user.id, user.email, user.name)
       IN  IF BcryptCompare(lg[r].body.password, user.password)
           THEN /\ tokens' = tokens \cup {token}
                /\ lg' = [lg EXCEPT ![r] = [@ EXCEPT !.pc = "done",
                        !.res = [status |-> 200, message |-> "Login successful",
                                 token |-> token,
                                 user |-> [id |-> user.id, email |-> user.email,
                                           name |-> user.name]]]]
           ELSE /\ tokens' = tokens
                /\ lg' = [lg EXCEPT ![r] = [@ EXCEPT !.pc = "done",
                        !.res = WrongPasswordResponse]]
    /\ UNCHANGED <<users, reg, profileRes, getProfileRes, bookingVars,
                   notificationVars, paymentVars, gatewayVars, storefrontVars>>

\* -------------------------------------------------------- payment service

ProcessReqs == 1..NumProcessReqs
RefundReqs == 1..NumRefundReqs

\* the keys of paymentGateways
GatewayNames == {"stripe", "paypal", "square"}

\* the prefix each gateway puts before the uuid of its transaction id
TransactionPrefix(method) ==
    CASE method = "stripe" -> "stripe"
      [] method = "paypal" -> "pp"
      [] method = "square" -> "sq"

\* a TEXT column that is NULL, a transactionId that is null
Null == <<>>

\* request bodies of POST /process: booking 1 exists, booking 2 does not;
\* "bitcoin" is no gateway
ProcessBodies ==
    [bookingId : {1, 2}, userId : {1}, amount : {59998},
     paymentMethod : {"stripe", "bitcoin"}]

NoProcessBody ==
    [bookingId |-> 0, userId |-> 0, amount |-> 0, paymentMethod |-> ""]

NoResult == [success |-> FALSE, transactionId |-> Null, message |-> ""]

IdleProcess ==
    [pc |-> "idle", body |-> NoProcessBody, paymentRecordId |-> 0,
     result |-> NoResult, bookingPut |-> "none", notify |-> "none",
     res |-> NoRes]

NoPayment == [found |-> FALSE, booking_id |-> 0, user_id |-> 0, amount |-> 0]

IdleRefund ==
    [pc |-> "idle", paymentId |-> -1, afterRefund |-> FALSE,
     payment |-> NoPayment, bookingPut |-> "none", notify |-> "none", res |-> NoRes]

\* a validation chain that lets any method string through
ValidProcessAnyMethod(body) ==
    /\ body.bookingId >= 1
    /\ body.userId >= 1
    /\ body.amount >= 1

\* the express-validator chain of POST /process (amount is in cents)
ValidProcess(body) ==
    /\ body.bookingId >= 1
    /\ body.userId >= 1
    /\ body.amount >= 1
    /\ body.paymentMethod \in {"stripe", "paypal", "square"}

\* INSERT INTO payments (...): status takes its default, 'pending'
PaymentRow(paymentId, body, time) ==
    [payment_id |-> paymentId, booking_id |-> body.bookingId,
     user_id |-> body.userId, amount |-> body.amount,
     payment_method |-> body.paymentMethod, status |-> "pending",
     gateway_response |-> Null, transaction_id |-> Null, updated_at |-> time]

\* gateway.process(): what the coin flip makes of the charge
GatewayResult(method, paymentId, success) ==
    [success |-> success,
     transactionId |-> IF success
                       THEN <<TransactionPrefix(method), paymentId>>
                       ELSE Null,
     message |-> IF success THEN "processed" ELSE "declined"]

\* const status = result.success ? 'completed' : 'failed'
GatewayStatus(result) == IF result.success THEN "completed" ELSE "failed"

\* JSON.stringify
JsonStringify(value) == <<"json", value>>

\* UPDATE payments SET status = ?, gateway_response = ?, transaction_id = ?,
\* updated_at = CURRENT_TIMESTAMP WHERE id = ?
UpdatePaymentById(rows, id, status, response, transactionId, time) ==
    [i \in 1..Len(rows) |->
        IF i = id
        THEN [rows[i] EXCEPT !.status = status, !.gateway_response = response,
                             !.transaction_id = transactionId,
                             !.updated_at = time]
        ELSE rows[i]]

\* a lookup without the status condition
SelectPaymentAnyStatus(rows, paymentId) ==
    LET hit == {i \in 1..Len(rows) : rows[i].payment_id = paymentId}
    IN  IF hit = {} THEN NoPayment
        ELSE LET row == rows[CHOOSE i \in hit : TRUE]
             IN  [found |-> TRUE, booking_id |-> row.booking_id,
                  user_id |-> row.user_id, amount |-> row.amount]

\* SELECT * FROM payments WHERE payment_id = ? AND status = "completed"
SelectCompletedPayment(rows, paymentId) ==
    LET hit == {i \in 1..Len(rows) : /\ rows[i].payment_id = paymentId
                                     /\ rows[i].status = "completed"}
    IN  IF hit = {} THEN NoPayment
        ELSE LET row == rows[CHOOSE i \in hit : TRUE]
             IN  [found |-> TRUE, booking_id |-> row.booking_id,
                  user_id |-> row.user_id, amount |-> row.amount]

\* UPDATE payments SET status = 'refunded', gateway_response = ?,
\* updated_at = CURRENT_TIMESTAMP WHERE payment_id = ?
RefundPaymentById(rows, paymentId, response, time) ==
    [i \in 1..Len(rows) |->
        IF rows[i].payment_id = paymentId
        THEN [rows[i] EXCEPT !.status = "refunded",
                             !.gateway_response = response,
                             !.updated_at = time]
        ELSE rows[i]]

\* an UPDATE that also confirms the booking once it is paid
SetPaymentStatusConfirms(rows, id, paymentStatus) ==
    [i \in 1..Len(rows) |->
        IF i = id
        THEN [rows[i] EXCEPT !.payment_status = paymentStatus,
                             !.status = IF paymentStatus = "completed"
                                        THEN "confirmed" ELSE @]
        ELSE rows[i]]

\* a booking service whose UPDATE of payment_status changes no row
SetPaymentStatusNowhere(rows, id, paymentStatus) == rows

\* booking service, PUT /bookings/:id/payment-status:
\* UPDATE bookings SET payment_status = ? WHERE id = ?
SetPaymentStatus(rows, id, paymentStatus) ==
    [i \in 1..Len(rows) |->
        IF i = id THEN [rows[i] EXCEPT !.payment_status = paymentStatus]
        ELSE rows[i]]

\* how a call to another service can end for the payment handler: the peer
\* answered 2xx, or the promise rejected (peer down, 4xx, 5xx)
PeerOutcomes == {"ok", "error"}

\* the response of POST /process, which the gateway result alone decides
ProcessResponse(paymentId, body, result) ==
    IF result.success
    THEN [status |-> 200, success |-> TRUE, paymentId |-> paymentId,
          transactionId |-> result.transactionId, amount |-> body.amount,
          paymentStatus |-> "completed"]
    ELSE [status |-> 400, success |-> FALSE, paymentId |-> paymentId,
          paymentStatus |-> "failed"]

\* a handler that answers 500 when a callback fails
CallbackFailedAnswers500(r, req, which) ==
    [req EXCEPT !.pc = "done", ![which] = "error",
                !.res = [status |-> 500, error |-> "Server error"]]

\* catch (notificationError): the error is logged and the response is sent
\* as if the callback had gone through
CallbackFailed(r, req, which) ==
    [req EXCEPT !.pc = "done", ![which] = "error",
                !.res = ProcessResponse(r, req.body, req.result)]

\* The handler up to db.run: validation and the uuid, which is the number of
\* the request.  Requests are numbered in their order of arrival.
PostProcess(r, body) ==
    /\ pay[r].pc = "idle"
    /\ \A q \in 1..(r - 1) : pay[q].pc # "idle"
    /\ pay' = [pay EXCEPT ![r] =
            IF ValidProcess(body)
            THEN [@ EXCEPT !.pc = "insert", !.body = body]
            ELSE [@ EXCEPT !.pc = "done", !.body = body,
                    !.res = [status |-> 400, error |-> "validation"]]]
    /\ UNCHANGED <<payments, rf, bookingVars, notificationVars, userVars, gatewayVars, storefrontVars>>

\* The INSERT and its callback, which awaits the gateway
InsertPaymentCallback(r) ==
    /\ pay[r].pc = "insert"
    /\ payments' = Append(payments, PaymentRow(r, pay[r].body, now))
    /\ pay' = [pay EXCEPT ![r] = [@ EXCEPT !.pc = "gateway",
                                   !.paymentRecordId = Len(payments) + 1]]
    /\ UNCHANGED <<rf, bookingVars, notificationVars, userVars, gatewayVars, storefrontVars>>

\* gateway.process resolves and the UPDATE of the record is issued.  A method
\* without a gateway makes gateway.process throw: the catch block answers 500
\* and issues its own UPDATE to 'failed'.
GatewayResolved(r, success) ==
    /\ pay[r].pc = "gateway"
    /\ IF pay[r].body.paymentMethod \in GatewayNames
       THEN pay' = [pay EXCEPT ![r] = [@ EXCEPT !.pc = "update",
                !.result = GatewayResult(pay[r].body.paymentMethod, r, success)]]
       ELSE pay' = [pay EXCEPT ![r] = [@ EXCEPT !.pc = "updateFailed",
                !.res = [status |-> 500, success |-> FALSE, paymentId |-> r,
                         paymentStatus |-> "failed"]]]
    /\ UNCHANGED <<payments, rf, bookingVars, notificationVars, userVars, gatewayVars, storefrontVars>>

\* The UPDATE of the record and its callback, which puts the payment status
\* to the booking service.  After a gateway error the UPDATE has no callback.
UpdatePaymentCallback(r) ==
    /\ pay[r].pc \in {"update", "updateFailed"}
    /\ IF pay[r].pc = "update"
       THEN /\ payments' = UpdatePaymentById(payments, pay[r].paymentRecordId,
                    GatewayStatus(pay[r].result),
                    JsonStringify(pay[r].result),
                    pay[r].result.transactionId, now)
            /\ pay' = [pay EXCEPT ![r] = [@ EXCEPT !.pc = "bookingPut",
                                           !.bookingPut = "called"]]
       ELSE /\ payments' = UpdatePaymentById(payments, pay[r].paymentRecordId,
                    "failed", JsonStringify("error"),
                    payments[pay[r].paymentRecordId].transaction_id, now)
            /\ pay' = [pay EXCEPT ![r].pc = "done"]
    /\ UNCHANGED <<rf, bookingVars, notificationVars, userVars, gatewayVars, storefrontVars>>

\* axios.put(.../bookings/:id/payment-status) settles.  It resolves only if
\* the booking service ran its UPDATE and a row changed (404 otherwise); then
\* the notification is posted.  If it rejects, the catch block skips the
\* notification and the response is sent.
ProcessBookingPutSettled(r, outcome) ==
    /\ pay[r].pc = "bookingPut"
    /\ IF outcome = "ok" /\ pay[r].body.bookingId \in 1..Len(bookings)
       THEN /\ bookings' = SetPaymentStatus(bookings, pay[r].body.bookingId,
                                            GatewayStatus(pay[r].result))
            /\ pay' = [pay EXCEPT ![r] = [@ EXCEPT !.pc = "notify",
                        !.bookingPut = "ok", !.notify = "called"]]
       ELSE /\ bookings' = bookings
            /\ pay' = [pay EXCEPT ![r] = CallbackFailed(r, pay[r], "bookingPut")]
    /\ UNCHANGED <<payments, rf, available_slots, bk, slots0, putRes,
                   notificationVars, userVars, gatewayVars, storefrontVars>>

\* axios.post(.../send) settles and the response is sent
ProcessNotifySettled(r, outcome) ==
    /\ pay[r].pc = "notify"
    /\ pay' = [pay EXCEPT ![r] =
            IF outcome = "ok"
            THEN [@ EXCEPT !.pc = "done", !.notify = "ok",
                    !.res = ProcessResponse(r, pay[r].body, pay[r].result)]
            ELSE CallbackFailed(r, pay[r], "notify")]
    /\ UNCHANGED <<payments, rf, bookingVars, notificationVars, userVars, gatewayVars, storefrontVars>>

\* a payment id no record has
UnknownPaymentId == 0

\* the payment ids a client can name: the uuids the service has handed out,
\* or one it made up
KnownPaymentIds ==
    {payments[i].payment_id : i \in 1..Len(payments)} \cup {UnknownPaymentId}

\* history: a refund of this payment has been answered with success
RefundedBefore(paymentId) ==
    \E q \in RefundReqs : rf[q].paymentId = paymentId /\ rf[q].res.status = 200

\* POST /refund/:paymentId up to db.get.  Requests are numbered in their
\* order of arrival.
PostRefund(f, paymentId) ==
    /\ rf[f].pc = "idle"
    /\ paymentId \in KnownPaymentIds
    /\ \A q \in 1..(f - 1) : rf[q].pc # "idle"
    /\ rf' = [rf EXCEPT ![f] = [@ EXCEPT !.pc = "select",
                                         !.paymentId = paymentId,
                                         !.afterRefund = RefundedBefore(paymentId)]]
    /\ UNCHANGED <<payments, pay, bookingVars, notificationVars, userVars,
                   gatewayVars, storefrontVars>>

\* a failure branch that still issues the UPDATE to 'refunded'
RefundFailedStillUpdates(req, payment) ==
    [req EXCEPT !.pc = "update", !.payment = payment,
                !.res = [status |-> 400, success |-> FALSE]]

\* the else branch of if (refundSuccess): only the 400 response is sent
RefundFailed(req, payment) ==
    [req EXCEPT !.pc = "done", !.payment = payment,
                !.res = [status |-> 400, success |-> FALSE]]

\* The db.get callback: 404 without a completed row; otherwise the refund coin
\* is flipped, and on success the UPDATE is issued and the response is sent
\* right after, outside the UPDATE's callback
SelectPaymentCallback(f, refundSuccess) ==
    /\ rf[f].pc = "select"
    /\ LET payment == SelectCompletedPayment(payments, rf[f].paymentId)
       IN  rf' = [rf EXCEPT ![f] =
                IF ~payment.found
                THEN [@ EXCEPT !.pc = "done",
                        !.res = [status |-> 404,
                                 error |-> "Payment not found or not eligible for refund"]]
                ELSE IF refundSuccess
                THEN [@ EXCEPT !.pc = "update", !.payment = payment,
                        !.res = [status |-> 200, success |-> TRUE,
                                 refundId |-> <<"refund", f>>,
                                 amount |-> payment.amount]]
                ELSE RefundFailed(@, payment)]
    /\ UNCHANGED <<payments, pay, bookingVars, notificationVars, userVars,
                   gatewayVars, storefrontVars>>

\* The UPDATE to 'refunded' and its callback, which puts the payment status
\* to the booking service
RefundUpdateCallback(f) ==
    /\ rf[f].pc = "update"
    /\ payments' = RefundPaymentById(payments, rf[f].paymentId,
            JsonStringify([refundId |-> <<"refund", f>>,
                           reason |-> "Customer request",
                           refundedAt |-> now]), now)
    /\ rf' = [rf EXCEPT ![f] = [@ EXCEPT !.pc = "bookingPut",
                                         !.bookingPut = "called"]]
    /\ UNCHANGED <<pay, bookingVars, notificationVars, userVars, gatewayVars, storefrontVars>>

\* a handler whose two calls each have a try block of their own
RefundPutSettledNotifiesAnyway(req, succeeded) ==
    [req EXCEPT !.pc = "notify", !.notify = "called",
                !.bookingPut = IF succeeded THEN "ok" ELSE "error"]

\* try { await axios.put(...); await axios.post(...) } catch { log }: the
\* notification is posted only if the put resolved
RefundPutSettled(req, succeeded) ==
    IF succeeded
    THEN [req EXCEPT !.pc = "notify", !.bookingPut = "ok", !.notify = "called"]
    ELSE [req EXCEPT !.pc = "done", !.bookingPut = "error"]

\* axios.put(.../payment-status, 'refunded') settles
RefundBookingPutSettled(f, outcome) ==
    /\ rf[f].pc = "bookingPut"
    /\ LET succeeded == /\ outcome = "ok"
                        /\ rf[f].payment.booking_id \in 1..Len(bookings)
       IN  /\ bookings' = IF succeeded
                          THEN SetPaymentStatus(bookings,
                                    rf[f].payment.booking_id, "refunded")
                          ELSE bookings
           /\ rf' = [rf EXCEPT ![f] = RefundPutSettled(@, succeeded)]
    /\ UNCHANGED <<payments, pay, available_slots, bk, slots0, putRes,
                   notificationVars, userVars, gatewayVars, storefrontVars>>

\* axios.post(.../send, 'payment_refunded') settles
RefundNotifySettled(f, outcome) ==
    /\ rf[f].pc = "notify"
    /\ rf' = [rf EXCEPT ![f] = [@ EXCEPT !.pc = "done", !.notify = outcome]]
    /\ UNCHANGED <<payments, pay, bookingVars, notificationVars, userVars,
                   gatewayVars, storefrontVars>>

\* ------------------------------------------------------- booking service

\* the default of services.available_slots, which the seed rows get
SeedSlots == 100

\* guests is optional and validated isInt({min: 1, max: 10})
MinGuests == 1
MaxGuests == 10

\* the first two seeded services; any other id is unknown
ServiceIds == {1, 2}

\* services.price of the first two sample services, in cents
Price == [s \in ServiceIds |-> IF s = 1 THEN 29999 ELSE 14999]

\* A body field that the request leaves out
Omitted == -1

\* available_slots values the database file holds when the run starts: the
\* seed value, or what earlier bookings (each at most MaxGuests) left of it
StartSlots == {1, SeedSlots}

BookingReqs == 1..NumBookingReqs

\* request bodies: an unknown service id (3), guests omitted, valid, too large
BookingBodies ==
    [userId : {1}, serviceId : {1, 2, 3}, guests : {Omitted, 2, MaxGuests + 1}]

NoBody == [userId |-> 0, serviceId |-> 0, guests |-> Omitted]

NoService == [found |-> FALSE, price |-> 0, available_slots |-> 0]

IdleBooking ==
    [pc |-> "idle", body |-> NoBody, userId |-> 0, serviceId |-> 0,
     guests |-> 0, service |-> NoService, totalAmount |-> 0, lastID |-> 0,
     res |-> NoRes, notify |-> "none"]

\* the express-validator chain of POST /bookings
ValidBooking(body) ==
    /\ body.userId >= 1
    /\ body.serviceId >= 1
    /\ body.guests = Omitted \/ (body.guests >= MinGuests /\ body.guests <= MaxGuests)

\* const { ..., guests = 1 } = req.body
GuestsOrDefault(g) == IF g = Omitted THEN 1 ELSE g

\* db.get('SELECT * FROM services WHERE id = ?')
SelectService(slots, id) ==
    IF id \in ServiceIds
    THEN [found |-> TRUE, price |-> Price[id], available_slots |-> slots[id]]
    ELSE NoService

\* the check with <= for <
NotEnoughSlotsOffByOne(service, guests) == service.available_slots <= guests

\* if (service.available_slots < guests) return 400
NotEnoughSlots(service, guests) == service.available_slots < guests

\* the total without the party size
TotalAmountUnitPrice(service, guests) == service.price

\* const totalAmount = service.price * guests
TotalAmount(service, guests) == service.price * guests

\* an INSERT that stores the booking as already confirmed
BookingRowConfirmed(userId, serviceId, guests, totalAmount) ==
    [user_id |-> userId, service_id |-> serviceId, guests |-> guests,
     total_amount |-> totalAmount, status |-> "confirmed",
     payment_status |-> "pending"]

\* INSERT INTO bookings (...): status and payment_status take their defaults
BookingRow(userId, serviceId, guests, totalAmount) ==
    [user_id |-> userId, service_id |-> serviceId, guests |-> guests,
     total_amount |-> totalAmount, status |-> "pending",
     payment_status |-> "pending"]

\* an UPDATE that takes one place whatever the party size
DecrementSlotsByOne(slots, id, guests) ==
    [slots EXCEPT ![id] = slots[id] - 1]

\* UPDATE services SET available_slots = available_slots - ? WHERE id = ?
DecrementSlots(slots, id, guests) ==
    [slots EXCEPT ![id] = slots[id] - guests]

\* how the call to POST /send can end for the booking handler: the
\* notification service answered, or the promise rejected (service down, 4xx,
\* 5xx)
CallOutcomes == {"ok", "error"}

\* a handler that answers 500 when the notification call fails
NotificationSettledFailsBooking(req, outcome) ==
    IF outcome = "error"
    THEN [req EXCEPT !.notify = "error",
                     !.res = [status |-> 500, error |-> "Server error"]]
    ELSE [req EXCEPT !.notify = "ok"]

\* the request once the axios.post promise settles: .catch only logs
NotificationSettled(req, outcome) ==
    [req EXCEPT !.notify = IF outcome = "error" THEN "error" ELSE "ok"]

\* The handler up to db.get: validation, the guests default.  Requests are
\* numbered in their order of arrival.
PostBookings(r, body) ==
    /\ bk[r].pc = "idle"
    /\ \A q \in 1..(r - 1) : bk[q].pc # "idle"
    /\ IF ValidBooking(body)
       THEN bk' = [bk EXCEPT ![r] = [@ EXCEPT
                !.pc = "get", !.body = body, !.userId = body.userId,
                !.serviceId = body.serviceId,
                !.guests = GuestsOrDefault(body.guests)]]
       ELSE bk' = [bk EXCEPT ![r] = [@ EXCEPT
                !.pc = "done", !.body = body,
                !.res = [status |-> 400, error |-> "validation"]]]
    /\ UNCHANGED <<available_slots, bookings, slots0, putRes, notificationVars, userVars, paymentVars,
                   gatewayVars, storefrontVars>>

\* a 400 without the return: the handler goes on to the INSERT
RejectForCapacityNoReturn(req, service) ==
    [req EXCEPT !.pc = "insert", !.service = service,
                !.res = [status |-> 400, error |-> "Not enough available slots"]]

\* return res.status(400).json({ error: 'Not enough available slots' })
RejectForCapacity(req, service) ==
    [req EXCEPT !.pc = "done", !.service = service,
                !.res = [status |-> 400, error |-> "Not enough available slots"]]

\* The db.get callback: 404, 400 or the total and the INSERT is issued
GetServiceCallback(r) ==
    /\ bk[r].pc = "get"
    /\ LET service == SelectService(available_slots, bk[r].serviceId)
       IN  bk' = [bk EXCEPT ![r] =
                IF ~service.found
                THEN [@ EXCEPT !.pc = "done",
                        !.res = [status |-> 404, error |-> "Service not found"]]
                ELSE IF NotEnoughSlots(service, bk[r].guests)
                THEN RejectForCapacity(@, service)
                ELSE [@ EXCEPT !.pc = "insert", !.service = service,
                        !.totalAmount = TotalAmount(service, bk[r].guests)]]
    /\ UNCHANGED <<available_slots, bookings, slots0, putRes, notificationVars, userVars, paymentVars,
                   gatewayVars, storefrontVars>>

\* The INSERT and its callback: the UPDATE is issued, the notification is
\* posted without being awaited, and the 201 response is sent
InsertBookingCallback(r) ==
    /\ bk[r].pc = "insert"
    /\ bookings' = Append(bookings,
            BookingRow(bk[r].userId, bk[r].serviceId, bk[r].guests,
                       bk[r].totalAmount))
    /\ bk' = [bk EXCEPT ![r] = [@ EXCEPT
            !.pc = "update", !.lastID = Len(bookings) + 1,
            !.notify = "posted",
            !.res = [status |-> 201, bookingId |-> Len(bookings) + 1,
                     totalAmount |-> bk[r].totalAmount]]]
    /\ UNCHANGED <<available_slots, slots0, putRes, notificationVars, userVars, paymentVars,
                   gatewayVars, storefrontVars>>

\* The UPDATE of available_slots executes; nobody waits for it
UpdateSlots(r) ==
    /\ bk[r].pc = "update"
    /\ available_slots' =
            DecrementSlots(available_slots, bk[r].serviceId, bk[r].guests)
    /\ bk' = [bk EXCEPT ![r].pc = "done"]
    /\ UNCHANGED <<bookings, slots0, putRes, notificationVars, userVars, paymentVars,
                   gatewayVars, storefrontVars>>

\* axios.post('http://localhost:3004/send', {type: 'booking_created', ...})
\* settles.  What the notification service does with the request is its own
\* state machine (SpecNotification); the booking service sees the outcome only.
BookingNotificationSettled(r, outcome) ==
    /\ bk[r].notify = "posted"
    /\ bk' = [bk EXCEPT ![r] = NotificationSettled(bk[r], outcome)]
    /\ UNCHANGED <<available_slots, bookings, slots0, putRes, notificationVars, userVars, paymentVars,
                   gatewayVars, storefrontVars>>

\* the values isIn() accepts for the status of a booking
BookingStatuses == {"pending", "confirmed", "cancelled", "completed"}

\* the values isIn() accepts for the payment status of a booking
PaymentStatuses == {"pending", "completed", "failed", "refunded"}

\* the :id of a PUT: the first booking, or an id no booking has
BookingIdInputs == {1, NumBookingReqs + 1}

\* status values clients put: a cancellation, a made-up one
StatusInputs == {"cancelled", "archived"}

\* payment status values the payment service (or any client) puts
PaymentStatusInputs == {"failed", "refunded", "void"}

\* UPDATE bookings SET status = ?, updated_at = CURRENT_TIMESTAMP WHERE id = ?
SetStatus(rows, id, status) ==
    [i \in 1..Len(rows) |->
        IF i = id THEN [rows[i] EXCEPT !.status = status] ELSE rows[i]]

\* the response of either PUT: 400 from the validator, 404 when this.changes
\* is 0, else the message
PutResponse(valid, rows, id, message) ==
    IF ~valid THEN [status |-> 400, error |-> "validation"]
    ELSE IF id \notin 1..Len(rows)
    THEN [status |-> 404, error |-> "Booking not found"]
    ELSE [status |-> 200, message |-> message]

\* PUT /bookings/:id/status: validation, the UPDATE and its callback
PutBookingStatus(id, status) ==
    /\ bookings' = IF status \in BookingStatuses
                   THEN SetStatus(bookings, id, status)
                   ELSE bookings
    /\ putRes' = PutResponse(status \in BookingStatuses, bookings, id,
                             "Booking status updated successfully")
    /\ UNCHANGED <<available_slots, bk, slots0, notificationVars, userVars,
                   paymentVars, gatewayVars, storefrontVars>>

\* PUT /bookings/:id/payment-status: validation, the UPDATE and its callback
PutPaymentStatus(id, paymentStatus) ==
    /\ bookings' = IF paymentStatus \in PaymentStatuses
                   THEN SetPaymentStatus(bookings, id, paymentStatus)
                   ELSE bookings
    /\ putRes' = PutResponse(paymentStatus \in PaymentStatuses, bookings, id,
                             "Payment status updated successfully")
    /\ UNCHANGED <<available_slots, bk, slots0, notificationVars, userVars,
                   paymentVars, gatewayVars, storefrontVars>>

\* ------------------------------------------------------------- api gateway

GatewayReqs == 1..NumGatewayReqs

\* the mount paths of the four createProxyMiddleware instances
Prefixes == {"/api/users", "/api/bookings", "/api/payments", "/api/notifications"}

\* target: getUserService() and the entries of services
Target(prefix) ==
    CASE prefix = "/api/users" -> "localhost:3001"
      [] prefix = "/api/bookings" -> "localhost:3002"
      [] prefix = "/api/payments" -> "localhost:3003"
      [] prefix = "/api/notifications" -> "localhost:3004"

\* The requests clients send: a GET without a body, a POST with a JSON
\* document and a POST with a plain-text body.  url is the mount path and
\* the rest of the path; content-length is the length of the body.
ClientRequests ==
    [prefix : Prefixes, rest : {"/health"}, method : {"GET"},
     contentType : {"none"}, body : {""}, authorization : {"Bearer t"}]
    \cup
    [prefix : Prefixes, rest : {"/item"}, method : {"POST"},
     contentType : {"application/json", "text/plain"}, body : {"{doc}"},
     authorization : {"Bearer t"}]

NoClientRequest ==
    [prefix |-> "", rest |-> "", method |-> "", contentType |-> "",
     body |-> "", authorization |-> ""]

NoForward == [sent |-> FALSE]

IdleGateway ==
    [pc |-> "idle", req |-> NoClientRequest, drained |-> FALSE,
     backend |-> "none", forwarded |-> NoForward, answer |-> NoRes,
     res |-> NoRes]

\* what the backends answer to a request they have read in full
BackendAnswers ==
    {[status |-> 200, body |-> "ok"], [status |-> 404, body |-> "not found"]}

\* express.json(): a body whose Content-Type is application/json is read
\* from the request stream and parsed into req.body; other requests pass
\* with their stream unread
ExpressJson(req) == req.contentType = "application/json" /\ req.body # ""

\* pathRewrite: { '^/api/...': '' } on the url the client sent
PathRewrite(req) == req.rest

\* The request http-proxy writes to the target: method, rewritten path, the
\* client's headers with Host set to the target (changeOrigin), and whatever
\* the request stream still yields, which is nothing once express.json has
\* read it; Content-Length stays what the client sent.
Forward(req, drained) ==
    [sent |-> TRUE, method |-> req.method, path |-> PathRewrite(req),
     host |-> Target(req.prefix), contentType |-> req.contentType,
     authorization |-> req.authorization, contentLength |-> req.body,
     body |-> IF drained THEN "" ELSE req.body]

\* an error handler that hands the connection error to the client
OnErrorPropagates(prefix) ==
    [status |-> 500, body |-> [error |-> "connect ECONNREFUSED"]]

\* onError: res.status(503).json({ error: '... service unavailable' })
OnError(prefix) ==
    [status |-> 503,
     body |-> [error |->
        CASE prefix = "/api/users" -> "User service unavailable"
          [] prefix = "/api/bookings" -> "Booking service unavailable"
          [] prefix = "/api/payments" -> "Payment service unavailable"
          [] prefix = "/api/notifications" -> "Notification service unavailable"]]

\* A request arrives and passes helmet, cors, the limiter and express.json.
\* Requests are numbered in their order of arrival.
GatewayReceive(r, req) ==
    /\ gw[r].pc = "idle"
    /\ \A q \in 1..(r - 1) : gw[q].pc # "idle"
    /\ gw' = [gw EXCEPT ![r] = [@ EXCEPT !.pc = "proxy", !.req = req,
                                         !.drained = ExpressJson(req)]]
    /\ UNCHANGED <<bookingVars, notificationVars, userVars, paymentVars,
                   storefrontVars>>

\* The proxy middleware of the prefix connects to its target: a refused
\* connection goes to onError, otherwise the request is written
ProxyConnect(r, reachable) ==
    /\ gw[r].pc = "proxy"
    /\ gw' = [gw EXCEPT ![r] =
            IF reachable
            THEN [@ EXCEPT !.pc = "backend", !.backend = "up",
                    !.forwarded = Forward(gw[r].req, gw[r].drained)]
            ELSE [@ EXCEPT !.pc = "done", !.backend = "unreachable",
                    !.res = OnError(gw[r].req.prefix)]]
    /\ UNCHANGED <<bookingVars, notificationVars, userVars, paymentVars,
                   storefrontVars>>

\* The backend has read the request in full and answers; the proxy pipes the
\* answer to the client
BackendAnswered(r, answer) ==
    /\ gw[r].pc = "backend"
    /\ gw[r].forwarded.body = gw[r].forwarded.contentLength
    /\ gw' = [gw EXCEPT ![r] = [@ EXCEPT !.pc = "done", !.answer = answer,
                                         !.res = answer]]
    /\ UNCHANGED <<bookingVars, notificationVars, userVars, paymentVars,
                   storefrontVars>>

\* The backend waits for a body that is shorter than its Content-Length and
\* never runs its handler; when it or the client gives up, the connection
\* is closed and the proxy's error handler answers
BackendGaveUp(r) ==
    /\ gw[r].pc = "backend"
    /\ gw[r].forwarded.body # gw[r].forwarded.contentLength
    /\ gw' = [gw EXCEPT ![r] = [@ EXCEPT !.pc = "done",
                                         !.res = OnError(gw[r].req.prefix)]]
    /\ UNCHANGED <<bookingVars, notificationVars, userVars, paymentVars,
                   storefrontVars>>

\* ------------------------------------------------- storefront: AuthProvider

\* login() and register() calls in one run
NumAuthCalls == 2

AuthCalls == 1..NumAuthCalls

\* JSON.parse of what JsonStringify wrote
JsonParse(text) == text[2]

\* what the user service answers to POST /login and POST /register: a token
\* and a user (2xx), or an error (axios rejects)
AuthResponses ==
    {[ok |-> TRUE, token |-> JwtSign(1, "a@x.com", "Al"),
      user |-> [id |-> 1, email |-> "a@x.com", name |-> "Al"]],
     [ok |-> TRUE, token |-> JwtSign(2, "b@x.com", "Bo"),
      user |-> [id |-> 2, email |-> "b@x.com", name |-> "Bo"]],
     [ok |-> FALSE, token |-> Null, user |-> Null]}

\* useState(null), useState(null), useState(true); no default header
InitialAuth ==
    [user |-> Null, token |-> Null, loading |-> TRUE, authorization |-> Null]

\* getItem returns null for both keys
EmptyStorage == [token |-> Null, user |-> Null]

\* what an earlier visit that ended signed in has left in localStorage
StoredSessions ==
    {[token |-> r.token, user |-> JsonStringify(r.user)] :
        r \in {x \in AuthResponses : x.ok}}

\* a logout that forgets the stored user
RemoveTokenOnly(storage) == [storage EXCEPT !.token = Null]

\* localStorage.removeItem('token'); localStorage.removeItem('user')
RemoveItems(storage) == EmptyStorage

\* setToken, setUser, the two setItem calls and the default header, which
\* login and register run without a yield once the response is there
SignIn(state, response) ==
    [state EXCEPT !.token = response.token, !.user = response.user,
                  !.authorization = <<"Bearer", response.token>>]

\* localStorage.setItem('token', newToken) and ('user', JSON.stringify(newUser))
SetItems(response) ==
    [token |-> response.token, user |-> JsonStringify(response.user)]

\* useEffect(..., []): the stored session, if both items are there
Mount ==
    /\ auth.loading
    /\ auth' = IF localStorage.token # Null /\ localStorage.user # Null
               THEN [auth EXCEPT !.token = localStorage.token,
                                 !.user = JsonParse(localStorage.user),
                                 !.authorization =
                                        <<"Bearer", localStorage.token>>,
                                 !.loading = FALSE]
               ELSE [auth EXCEPT !.loading = FALSE]
    /\ UNCHANGED <<localStorage, authCalls, bookingVars, notificationVars,
                   userVars, paymentVars, gatewayVars>>

\* login() up to the await of axios.post
login(c) ==
    /\ authCalls[c].pc = "idle"
    /\ \A q \in 1..(c - 1) : authCalls[q].pc # "idle"
    /\ authCalls' = [authCalls EXCEPT ![c] = [@ EXCEPT !.pc = "await",
                                                       !.fn = "login"]]
    /\ UNCHANGED <<auth, localStorage, bookingVars, notificationVars,
                   userVars, paymentVars, gatewayVars>>

\* register() up to the await of axios.post
register(c) ==
    /\ authCalls[c].pc = "idle"
    /\ \A q \in 1..(c - 1) : authCalls[q].pc # "idle"
    /\ authCalls' = [authCalls EXCEPT ![c] = [@ EXCEPT !.pc = "await",
                                                       !.fn = "register"]]
    /\ UNCHANGED <<auth, localStorage, bookingVars, notificationVars,
                   userVars, paymentVars, gatewayVars>>

\* The promise of axios.post settles: the rest of the try block, or the catch
AuthCallSettled(c, response) ==
    /\ authCalls[c].pc = "await"
    /\ authCalls' = [authCalls EXCEPT ![c] = [@ EXCEPT !.pc = "done",
                                                       !.returned = response.ok]]
    /\ IF response.ok
       THEN /\ auth' = SignIn(auth, response)
            /\ localStorage' = SetItems(response)
       ELSE UNCHANGED <<auth, localStorage>>
    /\ UNCHANGED <<bookingVars, notificationVars, userVars, paymentVars,
                   gatewayVars>>

\* logout()
logout ==
    /\ auth' = [auth EXCEPT !.user = Null, !.token = Null,
                            !.authorization = Null]
    /\ localStorage' = RemoveItems(localStorage)
    /\ UNCHANGED <<authCalls, bookingVars, notificationVars, userVars,
                   paymentVars, gatewayVars>>

\* ---------------------------------------------------------- specifications

InitGateway == gw = [r \in GatewayReqs |-> IdleGateway]

\* the storefront before the provider's first render, over what the browser
\* has stored; no login() or register() has been called
InitStorefrontWith(storage) ==
    /\ auth = InitialAuth
    /\ localStorage = storage
    /\ authCalls = [c \in AuthCalls |->
                        [pc |-> "idle", fn |-> "", returned |-> FALSE]]

InitNotification ==
    /\ notifications = <<>>
    /\ snd = [r \in SendReqs |-> IdleSend]
    /\ markRes = NoRes
    /\ now = 0
    /\ st = IdleStats

InitUser ==
    /\ users = <<>>
    /\ reg = [r \in RegisterReqs |-> IdleRegister]
    /\ tokens = {}
    /\ profileRes = NoRes
    /\ getProfileRes = NoRes
    /\ lg = [r \in LoginReqs |-> IdleLogin]

InitPayment ==
    /\ payments = <<>>
    /\ pay = [r \in ProcessReqs |-> IdleProcess]
    /\ rf = [f \in RefundReqs |-> IdleRefund]

InitBooking ==
    /\ available_slots \in [ServiceIds -> StartSlots]
    /\ slots0 = available_slots
    /\ bookings = <<>>
    /\ bk = [r \in BookingReqs |-> IdleBooking]
    /\ putRes = NoRes

\* The booking service, with the notification service as its callee
Init ==
    /\ InitBooking
    /\ InitNotification
    /\ InitGateway
    /\ InitStorefrontWith(EmptyStorage)
    /\ InitUser
    /\ InitPayment

Next ==
    \/ \E r \in BookingReqs, body \in BookingBodies : PostBookings(r, body)
    \/ \E r \in BookingReqs : GetServiceCallback(r)
    \/ \E r \in BookingReqs : InsertBookingCallback(r)
    \/ \E r \in BookingReqs : UpdateSlots(r)
    \/ \E r \in BookingReqs, outcome \in CallOutcomes :
            BookingNotificationSettled(r, outcome)

Spec == Init /\ [][Next]_vars

\* The notification service on its own
InitNotificationOnly ==
    /\ InitNotification
    /\ InitGateway
    /\ InitStorefrontWith(EmptyStorage)
    /\ available_slots = [s \in ServiceIds |-> SeedSlots]
    /\ slots0 = available_slots
    /\ bookings = <<>>
    /\ bk = [r \in BookingReqs |-> IdleBooking]
    /\ putRes = NoRes
    /\ InitUser
    /\ InitPayment

NextNotification ==
    \/ \E r \in SendReqs, body \in SendBodies : PostSend(r, body)
    \/ \E r \in SendReqs, emailSent \in BOOLEAN : SendEmailResolved(r, emailSent)
    \/ \E r \in SendReqs : InsertNotificationCallback(r)
    \/ \E id \in 1..(NumSendReqs + 1) : MarkRead(id)
    \/ Tick

SpecNotification == InitNotificationOnly /\ [][NextNotification]_vars

\* GET /stats while POST /send requests store their records
NextStats ==
    \/ \E r \in SendReqs, body \in SendBodies : PostSend(r, body)
    \/ \E r \in SendReqs, emailSent \in BOOLEAN : SendEmailResolved(r, emailSent)
    \/ \E r \in SendReqs : InsertNotificationCallback(r)
    \/ GetStats
    \/ \E query \in StatsQueries : StatsQueryCallback(query)

SpecStats == InitNotificationOnly /\ [][NextStats]_vars

\* The user service on its own
InitUserOnly ==
    /\ InitUser
    /\ InitPayment
    /\ InitNotification
    /\ InitGateway
    /\ InitStorefrontWith(EmptyStorage)
    /\ available_slots = [s \in ServiceIds |-> SeedSlots]
    /\ slots0 = available_slots
    /\ bookings = <<>>
    /\ bk = [r \in BookingReqs |-> IdleBooking]
    /\ putRes = NoRes

NextUser ==
    \/ \E r \in RegisterReqs, body \in RegisterBodies : PostRegister(r, body)
    \/ \E r \in RegisterReqs : SelectUserCallback(r)
    \/ \E r \in RegisterReqs : InsertUserCallback(r)
    \/ \E token \in VerifyingTokens, body \in ProfileBodies :
            PutProfile(token, body)
    \/ \E token \in VerifyingTokens : GetProfile(token)

SpecUser == InitUserOnly /\ [][NextUser]_vars

\* POST /login on its own: the users table holds the account an earlier
\* POST /register {email: 'a@x.com', password: 'secret1', name: 'Al'} created;
\* its token has expired
InitLogin ==
    /\ users = <<[email |-> "a@x.com", password |-> BcryptHash("secret1"),
                  name |-> "Al"]>>
    /\ reg = [r \in RegisterReqs |-> IdleRegister]
    /\ tokens = {}
    /\ profileRes = NoRes
    /\ getProfileRes = NoRes
    /\ lg = [r \in LoginReqs |-> IdleLogin]
    /\ InitPayment
    /\ InitNotification
    /\ InitGateway
    /\ InitStorefrontWith(EmptyStorage)
    /\ available_slots = [s \in ServiceIds |-> SeedSlots]
    /\ slots0 = available_slots
    /\ bookings = <<>>
    /\ bk = [r \in BookingReqs |-> IdleBooking]
    /\ putRes = NoRes

NextLogin ==
    \/ \E r \in LoginReqs, body \in LoginBodies : PostLogin(r, body)
    \/ \E r \in LoginReqs : SelectLoginCallback(r)
    \/ \E r \in LoginReqs : CompareResolved(r)

SpecLogin == InitLogin /\ [][NextLogin]_vars

\* The gateway on its own, with backends that answer or are unreachable
InitGatewayOnly ==
    /\ available_slots = [s \in ServiceIds |-> SeedSlots]
    /\ slots0 = available_slots
    /\ bookings = <<>>
    /\ bk = [r \in BookingReqs |-> IdleBooking]
    /\ putRes = NoRes
    /\ InitNotification
    /\ InitGateway
    /\ InitStorefrontWith(EmptyStorage)
    /\ InitUser
    /\ InitPayment

NextGateway ==
    \/ \E r \in GatewayReqs, req \in ClientRequests : GatewayReceive(r, req)
    \/ \E r \in GatewayReqs, reachable \in BOOLEAN : ProxyConnect(r, reachable)
    \/ \E r \in GatewayReqs, answer \in BackendAnswers : BackendAnswered(r, answer)
    \/ \E r \in GatewayReqs : BackendGaveUp(r)

SpecGateway == InitGatewayOnly /\ [][NextGateway]_vars

\* The payment service, with the booking service as the callee of its
\* payment-status calls.  One booking exists, created by an earlier
\* POST /bookings for two guests of service 1.
InitPaymentWithBooking ==
    /\ InitPayment
    /\ InitUser
    /\ InitNotification
    /\ InitGateway
    /\ InitStorefrontWith(EmptyStorage)
    /\ available_slots = [s \in ServiceIds |-> SeedSlots]
    /\ slots0 = available_slots
    /\ bookings = <<BookingRow(1, 1, 2, 59998)>>
    /\ bk = [r \in BookingReqs |-> IdleBooking]
    /\ putRes = NoRes

ProcessStep(r) ==
    \/ InsertPaymentCallback(r)
    \/ \E success \in BOOLEAN : GatewayResolved(r, success)
    \/ UpdatePaymentCallback(r)
    \/ \E outcome \in PeerOutcomes : ProcessBookingPutSettled(r, outcome)
    \/ \E outcome \in PeerOutcomes : ProcessNotifySettled(r, outcome)

RefundStep(f) ==
    \/ \E refundSuccess \in BOOLEAN : SelectPaymentCallback(f, refundSuccess)
    \/ RefundUpdateCallback(f)
    \/ \E outcome \in PeerOutcomes : RefundBookingPutSettled(f, outcome)
    \/ \E outcome \in PeerOutcomes : RefundNotifySettled(f, outcome)

\* POST /process on its own
NextProcess ==
    \/ \E r \in ProcessReqs, body \in ProcessBodies : PostProcess(r, body)
    \/ \E r \in ProcessReqs : ProcessStep(r)

SpecProcess == InitPaymentWithBooking /\ [][NextProcess]_vars

\* Every callback the event loop holds for a POST /process is run
\* eventually: sqlite3 completes its statements, the gateway's timer fires
\* and an axios promise settles one way or the other.
SpecProcessFair ==
    SpecProcess /\ \A r \in ProcessReqs : WF_vars(ProcessStep(r))

\* the record an earlier POST /process left, by how far it got
EarlierPayment(paymentId, progress) ==
    LET body == [bookingId |-> 1, userId |-> 1, amount |-> 59998,
                 paymentMethod |-> "paypal"]
        result == GatewayResult("paypal", paymentId, progress = "completed")
        row == PaymentRow(paymentId, body, 0)
    IN  IF progress = "pending" THEN row
        ELSE UpdatePaymentById(<<row>>, 1, GatewayStatus(result),
                               JsonStringify(result), result.transactionId,
                               0)[1]

\* POST /refund on its own: the payments table holds a completed, a failed
\* and a pending payment of booking 1, left by earlier POST /process
\* requests, and the completed one has set the booking's payment status
InitRefund ==
    /\ payments = <<EarlierPayment(1, "completed"),
                    EarlierPayment(2, "failed"),
                    EarlierPayment(3, "pending")>>
    /\ pay = [r \in ProcessReqs |-> IdleProcess]
    /\ rf = [f \in RefundReqs |-> IdleRefund]
    /\ InitUser
    /\ InitNotification
    /\ InitGateway
    /\ InitStorefrontWith(EmptyStorage)
    /\ available_slots = [s \in ServiceIds |-> SeedSlots]
    /\ slots0 = available_slots
    /\ bookings = SetPaymentStatus(<<BookingRow(1, 1, 2, 59998)>>, 1,
                                   "completed")
    /\ bk = [r \in BookingReqs |-> IdleBooking]
    /\ putRes = NoRes

NextRefund ==
    \/ \E f \in RefundReqs, paymentId \in KnownPaymentIds :
            PostRefund(f, paymentId)
    \/ \E f \in RefundReqs : RefundStep(f)

SpecRefund == InitRefund /\ [][NextRefund]_vars

\* POST /process and POST /refund together: the requests of both kinds that
\* the service takes in one run
MaxPaymentReqs == 3

\* the requests the payment service has taken so far
PaymentReqsTaken ==
    Cardinality({r \in ProcessReqs : pay[r].pc # "idle"})
        + Cardinality({f \in RefundReqs : rf[f].pc # "idle"})

NextPayment ==
    \/ /\ PaymentReqsTaken < MaxPaymentReqs
       /\ \E r \in ProcessReqs, body \in ProcessBodies : PostProcess(r, body)
    \/ \E r \in ProcessReqs : ProcessStep(r)
    \/ /\ PaymentReqsTaken < MaxPaymentReqs
       /\ \E f \in RefundReqs, paymentId \in KnownPaymentIds :
            PostRefund(f, paymentId)
    \/ \E f \in RefundReqs : RefundStep(f)

SpecPayment == InitPaymentWithBooking /\ [][NextPayment]_vars

\* The booking service with its two PUT endpoints, on a freshly seeded
\* database.  The notification a created booking posts does not touch the
\* booking service's tables; its settling is left to Spec.
InitBookingSeeded ==
    /\ available_slots = [s \in ServiceIds |-> SeedSlots]
    /\ slots0 = available_slots
    /\ bookings = <<>>
    /\ bk = [r \in BookingReqs |-> IdleBooking]
    /\ putRes = NoRes
    /\ InitNotification
    /\ InitGateway
    /\ InitStorefrontWith(EmptyStorage)
    /\ InitUser
    /\ InitPayment

\* the bodies of the POST /bookings requests of this specification
SeededBookingBodies ==
    {body \in BookingBodies : body.serviceId \in ServiceIds /\ body.guests # Omitted}

NextBookingUpdates ==
    \/ \E r \in BookingReqs, body \in SeededBookingBodies : PostBookings(r, body)
    \/ \E r \in BookingReqs : GetServiceCallback(r)
    \/ \E r \in BookingReqs : InsertBookingCallback(r)
    \/ \E r \in BookingReqs : UpdateSlots(r)
    \/ \E id \in BookingIdInputs, status \in StatusInputs :
            PutBookingStatus(id, status)
    \/ \E id \in BookingIdInputs, paymentStatus \in PaymentStatusInputs :
            PutPaymentStatus(id, paymentStatus)

SpecBookingUpdates == InitBookingSeeded /\ [][NextBookingUpdates]_vars

\* The storefront's AuthProvider, in a browser that has not seen the site or
\* holds the session of an earlier visit
InitStorefront ==
    /\ \E storage \in {EmptyStorage} \cup StoredSessions :
            InitStorefrontWith(storage)
    /\ available_slots = [s \in ServiceIds |-> SeedSlots]
    /\ slots0 = available_slots
    /\ bookings = <<>>
    /\ bk = [r \in BookingReqs |-> IdleBooking]
    /\ putRes = NoRes
    /\ InitNotification
    /\ InitUser
    /\ InitPayment
    /\ gw = [r \in GatewayReqs |-> IdleGateway]

NextStorefront ==
    \/ Mount
    \/ \E c \in AuthCalls : login(c)
    \/ \E c \in AuthCalls : register(c)
    \/ \E c \in AuthCalls, response \in AuthResponses : AuthCallSettled(c, response)
    \/ logout

SpecStorefront == InitStorefront /\ [][NextStorefront]_vars

\* ------------------------------------------------- claims: booking service

\* the requests that got the 201 response
Created(r) == bk[r].res.status = 201

\* the guests of the created bookings of service s whose UPDATE has executed
RECURSIVE DecrementedGuests(_, _)
DecrementedGuests(s, rs) ==
    IF rs = {} THEN 0
    ELSE LET r == CHOOSE x \in rs : TRUE
         IN  (IF bk[r].pc = "done" /\ Created(r) /\ bk[r].serviceId = s
              THEN bk[r].guests ELSE 0)
             + DecrementedGuests(s, rs \ {r})

\* C1: available_slots >= 0 for every catalog item in every reachable state,
\* also when the lookup, insert and decrement steps of requests interleave.
C1_SlotsNeverNegative ==
    \A s \in ServiceIds : available_slots[s] >= 0

\* C2: the capacity check of a request reads available_slots as stored, which
\* no in-flight booking has decremented yet: whenever a lookup runs while the
\* stored value covers the party, the request passes the check and goes on to
\* its INSERT, whatever other requests are between their check and decrement.
C2_CheckPassesOnStoredSlots ==
    [][\A r \in BookingReqs :
        (/\ bk[r].pc = "get"
         /\ bk'[r].pc # "get"
         /\ bk[r].serviceId \in ServiceIds
         /\ bk[r].guests <= available_slots[bk[r].serviceId])
        => bk'[r].pc = "insert"]_vars

\* C2 witness: two bookings of one item were both created after both lookups
\* read the same stored capacity, smaller than the two parties together.
C2_BothCreatedOverCapacity ==
    \E r1, r2 \in BookingReqs :
        /\ r1 # r2
        /\ Created(r1) /\ Created(r2)
        /\ bk[r1].serviceId = bk[r2].serviceId
        /\ bk[r1].service.available_slots = bk[r2].service.available_slots
        /\ bk[r1].guests + bk[r2].guests > bk[r1].service.available_slots
        /\ Len(bookings) = 2

\* C3: every created booking stores and returns total_amount = price * guests,
\* with the price its own lookup read and the requested party size (1 when
\* omitted).
C3_TotalIsPriceTimesGuests ==
    \A r \in BookingReqs :
        Created(r) =>
            LET row == bookings[bk[r].res.bookingId]
                party == IF bk[r].body.guests = Omitted
                         THEN 1 ELSE bk[r].body.guests
            IN  /\ row.guests = party
                /\ row.service_id = bk[r].body.serviceId
                /\ bk[r].service.price = Price[row.service_id]
                /\ row.total_amount = bk[r].service.price * party
                /\ bk[r].res.totalAmount = row.total_amount

\* C3 witness: a booking for a party of two and one with guests omitted
C3_CreatedPartyOfTwoAndDefault ==
    \E r1, r2 \in BookingReqs :
        /\ Created(r1) /\ bk[r1].body.guests = 2
        /\ Created(r2) /\ bk[r2].body.guests = Omitted

\* C10: when the booking_created call fails, the caller still has the 201
\* response with booking id and total, the row is in the table, and the
\* decrement is issued and, once executed, applied in full.
C10_NotifyFailureKeepsBooking ==
    /\ \A r \in BookingReqs :
        bk[r].notify = "error" =>
            /\ bk[r].res = [status |-> 201, bookingId |-> bk[r].lastID,
                            totalAmount |-> bk[r].totalAmount]
            /\ bk[r].lastID \in 1..Len(bookings)
            /\ bookings[bk[r].lastID] =
                    BookingRow(bk[r].userId, bk[r].serviceId, bk[r].guests,
                               bk[r].totalAmount)
            /\ bk[r].pc \in {"update", "done"}
    /\ \A s \in ServiceIds :
        available_slots[s] = slots0[s] - DecrementedGuests(s, BookingReqs)

\* C10 witness: the call failed and the decrement has been applied
C10_NotifyFailedBookingDone ==
    \E r \in BookingReqs :
        /\ bk[r].notify = "error"
        /\ bk[r].pc = "done"
        /\ available_slots[bk[r].serviceId] =
                slots0[bk[r].serviceId] - bk[r].guests

\* ---------------------------------------------------- claims: user service

\* the accounts that hold an email
AccountsWith(email) == {i \in 1..Len(users) : users[i].email = email}

\* C4 as stated: once a Register with an email has succeeded, every later
\* Register with the same email fails with 'User already exists' and the
\* number of accounts with that email stays 1.
C4_SecondRegisterConflicts ==
    \A r \in RegisterReqs :
        (reg[r].pc = "done" /\ reg[r].afterSuccess) =>
            /\ reg[r].res = [status |-> 400, error |-> "User already exists"]
            /\ Cardinality(AccountsWith(reg[r].email)) = 1

\* C4 amended: a Register whose lookup runs while an account holds the email
\* fails with 'User already exists' and leaves the users table as it is, and
\* no step leaves two accounts with one email.
C4_RegisterConflictsWhileEmailHeld ==
    [][/\ \A r \in RegisterReqs :
            (/\ reg[r].pc = "select"
             /\ reg'[r].pc # "select"
             /\ \E i \in 1..Len(users) : users[i].email = reg[r].email)
            => /\ reg'[r].res =
                    [status |-> 400, error |-> "User already exists"]
               /\ users' = users
       /\ \A i, j \in 1..Len(users') :
            users'[i].email = users'[j].email => i = j]_vars

\* C4 witness: a Register that arrived after a successful one with another
\* spelling of the same address got the Conflict answer; one account holds it
C4_SecondRegisterRejected ==
    \E r, q \in RegisterReqs :
        /\ reg[q].res.status = 201
        /\ reg[r].afterSuccess
        /\ reg[r].email = reg[q].email
        /\ reg[r].body.email # reg[q].body.email
        /\ reg[r].res = [status |-> 400, error |-> "User already exists"]
        /\ Cardinality(AccountsWith(reg[r].email)) = 1

\* ------------------------------------------------- claims: payment service

\* the stored status of a payment id, "none" when no record has it
StoredStatus(paymentId) ==
    LET hit == {i \in 1..Len(payments) : payments[i].payment_id = paymentId}
    IN  IF hit = {} THEN "none" ELSE payments[CHOOSE i \in hit : TRUE].status

\* C5: a refund succeeds only on a payment whose stored status was
\* 'completed' (a pending, failed or unknown payment gets 404), and a refund
\* requested after another refund of the same payment was answered with
\* success gets 404.
C5_RefundOnlyCompletedAndOnce ==
    \A f \in RefundReqs :
        rf[f].pc \notin {"idle", "select"} =>
            /\ rf[f].res.status = 200 =>
                    StoredStatus(rf[f].paymentId) \in {"completed", "refunded"}
            /\ StoredStatus(rf[f].paymentId) \in {"none", "pending", "failed"}
                    => rf[f].res.status = 404
            /\ rf[f].afterRefund => rf[f].res.status = 404

\* C7: a POST /process whose method is none of stripe, paypal, square is
\* answered 400 and leaves no trace: no payment record, no gateway result, no
\* call to the booking or the notification service.
C7_UnsupportedMethodRejectedFirst ==
    /\ \A r \in ProcessReqs :
        (/\ pay[r].pc # "idle"
         /\ pay[r].body.paymentMethod \notin {"stripe", "paypal", "square"})
        => /\ pay[r].pc = "done"
           /\ pay[r].res = [status |-> 400, error |-> "validation"]
           /\ StoredStatus(r) = "none"
           /\ pay[r].result = NoResult
           /\ pay[r].bookingPut = "none"
           /\ pay[r].notify = "none"
    /\ \A i \in 1..Len(payments) :
        payments[i].payment_method \in {"stripe", "paypal", "square"}

\* C7 witness: a request with method "bitcoin" was answered 400 while the
\* table holds the record of another request
C7_BitcoinRejected ==
    \E r \in ProcessReqs :
        /\ pay[r].body.paymentMethod = "bitcoin"
        /\ pay[r].res.status = 400
        /\ Len(payments) = 1
        /\ StoredStatus(r) = "none"

\* C8: from the moment the gateway reports success for a payment of an
\* existing booking, the payment-status call fails or the booking's
\* payment_status becomes 'completed' at some later moment.
C8_SuccessLeadsToCompleted ==
    \A r \in ProcessReqs :
        (/\ pay[r].pc = "update"
         /\ pay[r].result.success
         /\ pay[r].body.bookingId \in 1..Len(bookings))
        ~> (\/ pay[r].bookingPut = "error"
            \/ /\ pay[r].body.bookingId \in 1..Len(bookings)
               /\ bookings[pay[r].body.bookingId].payment_status = "completed")

\* C8 witness: the gateway reported success, the call was delivered and the
\* booking is 'completed'
C8_DeliveredAndCompleted ==
    \E r \in ProcessReqs :
        /\ pay[r].result.success
        /\ pay[r].bookingPut = "ok"
        /\ bookings[pay[r].body.bookingId].payment_status = "completed"

\* C9: the response of a POST /process that reached the gateway and the
\* status stored in its record are what the gateway result says, whether the
\* calls to the booking and the notification service went through or failed.
C9_ResultDecidesResponse ==
    \A r \in ProcessReqs :
        (pay[r].pc = "done" /\ pay[r].paymentRecordId # 0) =>
            /\ pay[r].res.status = IF pay[r].result.success THEN 200 ELSE 400
            /\ pay[r].res.success = pay[r].result.success
            /\ pay[r].res.paymentId = r
            /\ pay[r].res.paymentStatus =
                    IF pay[r].result.success THEN "completed" ELSE "failed"
            /\ pay[r].result.success =>
                    pay[r].res.transactionId = pay[r].result.transactionId
            /\ payments[pay[r].paymentRecordId].status =
                    IF pay[r].result.success THEN "completed" ELSE "failed"

\* C9 witness: a successful payment whose call to the booking service failed
\* and a declined one whose call to the notification service failed
C9_CallbacksFailed ==
    \E r1, r2 \in ProcessReqs :
        /\ pay[r1].pc = "done" /\ pay[r1].bookingPut = "error"
        /\ pay[r1].result.success /\ pay[r1].res.status = 200
        /\ pay[r2].pc = "done" /\ pay[r2].notify = "error"
        /\ ~pay[r2].result.success /\ pay[r2].res.status = 400

\* ------------------------------------------- claims: notification service

\* C6: once a row's read_at is set, a later MarkRead of the same id leaves it
\* at the value the first call stored.
C6_ReadAtSetOnce ==
    [][\A i \in 1..Len(notifications) :
        notifications[i].read_at # Unread =>
            notifications'[i].read_at = notifications[i].read_at]_vars

\* C11: the step in which the simulated refund fails answers 400, leaves the
\* payments table (status 'completed', gateway_response, updated_at), the
\* bookings and the notifications as they are, and ends the request: it makes
\* no call to the booking or the notification service afterwards.
C11_FailedRefundTouchesNothing ==
    [][\A f \in RefundReqs :
        /\ (rf[f].pc = "select" /\ rf'[f].res.status = 400) =>
                /\ StoredStatus(rf[f].paymentId) = "completed"
                /\ payments' = payments
                /\ bookings' = bookings
                /\ notifications' = notifications
                /\ rf'[f].res = [status |-> 400, success |-> FALSE]
                /\ rf'[f].pc = "done"
                /\ rf'[f].bookingPut = "none"
                /\ rf'[f].notify = "none"
        /\ rf[f].res.status = 400 => rf'[f] = rf[f]]_vars

\* C11 witness: a refund was answered 400, its request is over without any
\* call, and the record is still 'completed' with its first gateway_response
C11_RefundFailedRecordKept ==
    \E f \in RefundReqs :
        /\ rf[f].res.status = 400
        /\ rf[f].pc = "done"
        /\ rf[f].bookingPut = "none"
        /\ \E i \in 1..Len(payments) :
            /\ payments[i].payment_id = rf[f].paymentId
            /\ payments[i] = EarlierPayment(rf[f].paymentId, "completed")

\* the status changes a payment record may go through
StatusChanges ==
    {<<"pending", "completed">>, <<"pending", "failed">>,
     <<"completed", "refunded">>}

\* C12: no step removes a payment record, every record a step adds has status
\* 'pending', and a step that changes the status of a record takes it from
\* pending to completed, from pending to failed or from completed to
\* refunded; so a record leaves 'pending' once and never leaves 'refunded'.
C12_StatusLifecycle ==
    [][/\ Len(payments') >= Len(payments)
       /\ \A i \in 1..Len(payments') :
            IF i > Len(payments)
            THEN payments'[i].status = "pending"
            ELSE \/ payments'[i].status = payments[i].status
                 \/ <<payments[i].status, payments'[i].status>> \in StatusChanges]_vars

\* C12 witness: of the records this run created, one was completed and then
\* refunded and another failed
C12_RefundedAndFailed ==
    \E r1, r2 \in ProcessReqs :
        /\ pay[r1].paymentRecordId # 0 /\ pay[r2].paymentRecordId # 0
        /\ pay[r1].result.success
        /\ payments[pay[r1].paymentRecordId].status = "refunded"
        /\ payments[pay[r2].paymentRecordId].status = "failed"

\* C13: in every reachable state of the user service, whatever way Register
\* and UpdateProfile requests interleave, no two accounts hold the same email.
C13_NoSharedEmail ==
    \A i, j \in 1..Len(users) : users[i].email = users[j].email => i = j

\* C13 witness: two Register requests with one address both passed the lookup
\* before either INSERT ran; one got 201, the other's INSERT was rejected
C13_ConcurrentRegisterRejected ==
    \E r, q \in RegisterReqs :
        /\ reg[r].email = reg[q].email
        /\ reg[q].res.status = 201
        /\ ~reg[r].afterSuccess
        /\ reg[r].res = [status |-> 500, error |-> "Failed to create user"]
        /\ Cardinality(AccountsWith(reg[r].email)) = 1

\* C14: a PUT /profile with a token that verifies, whose id no row has, and a
\* body that passes validation and supplies a field is answered 404 and leaves
\* the users table as it is, and a GET /profile with that token is answered
\* 404 'User not found'.
C14_UnknownAccountNotFound ==
    [][\A token \in VerifyingTokens :
        token.userId \notin 1..Len(users) =>
            /\ \A body \in ProfileBodies :
                (/\ ValidProfile(body)
                 /\ body.name # "" \/ body.email # ""
                 /\ PutProfile(token, body))
                => (profileRes'.status = 404 /\ users' = users)
            /\ GetProfile(token) =>
                getProfileRes' = [status |-> 404, error |-> "User not found"]]_vars

\* a login that names no account, or names one with another password
BadCredentials(req) ==
    \/ ~req.user.found
    \/ ~BcryptCompare(req.body.password, req.user.password)

\* C15: the step that answers a valid POST /login which names no account, or
\* names one with a wrong password, answers 401 'Invalid credentials' in both
\* cases and issues no token.
C15_BadLoginsLookAlike ==
    [][\A r \in LoginReqs :
        (/\ lg[r].pc # "done"
         /\ lg'[r].pc = "done"
         /\ ValidLogin(lg'[r].body)
         /\ BadCredentials(lg'[r]))
        => /\ lg'[r].res = [status |-> 401, error |-> "Invalid credentials"]
           /\ tokens' = tokens]_vars

\* C15 witness: a login with an unknown email and one with a known email and
\* a wrong password were answered, with equal responses, and no token exists
C15_UnknownAndWrongPassword ==
    \E r1, r2 \in LoginReqs :
        /\ lg[r1].pc = "done" /\ ValidLogin(lg[r1].body) /\ ~lg[r1].user.found
        /\ lg[r2].pc = "done" /\ lg[r2].user.found
        /\ ~BcryptCompare(lg[r2].body.password, lg[r2].user.password)
        /\ lg[r1].res = lg[r2].res
        /\ tokens = {}

\* --------------------------------------------------------- claims: gateway

\* C16: every request under one of the four prefixes whose backend was
\* unreachable is answered 503 with {error: '<Service> unavailable'} naming
\* the service of the prefix, and nothing was written to the backend.
C16_UnreachableAnswered503 ==
    \A r \in GatewayReqs :
        gw[r].backend = "unreachable" =>
            /\ gw[r].pc = "done"
            /\ gw[r].res.status = 503
            /\ gw[r].res.body =
                [error |->
                    IF gw[r].req.prefix = "/api/users"
                    THEN "User service unavailable"
                    ELSE IF gw[r].req.prefix = "/api/bookings"
                    THEN "Booking service unavailable"
                    ELSE IF gw[r].req.prefix = "/api/payments"
                    THEN "Payment service unavailable"
                    ELSE "Notification service unavailable"]
            /\ gw[r].forwarded = NoForward

\* C16 witness: requests under two different prefixes found their backends
\* unreachable, one of them a POST with a JSON body, and were answered
C16_TwoServicesUnavailable ==
    \E r1, r2 \in GatewayReqs :
        /\ gw[r1].backend = "unreachable" /\ gw[r1].res.status = 503
        /\ gw[r2].backend = "unreachable" /\ gw[r2].res.status = 503
        /\ gw[r1].req.prefix = "/api/payments"
        /\ gw[r2].req.prefix = "/api/notifications"
        /\ gw[r1].drained

\* C17: what the gateway writes to the backend has the method, the headers
\* (Host aside, which names the target) and the body the client sent and the
\* path without the prefix, also for a JSON body, and the answer of a backend
\* reaches the client as the backend gave it.
C17_ForwardsRequestUnchanged ==
    \A r \in GatewayReqs :
        /\ gw[r].forwarded.sent =>
            /\ gw[r].forwarded.method = gw[r].req.method
            /\ gw[r].forwarded.path = gw[r].req.rest
            /\ gw[r].forwarded.contentType = gw[r].req.contentType
            /\ gw[r].forwarded.authorization = gw[r].req.authorization
            /\ gw[r].forwarded.body = gw[r].req.body
        /\ gw[r].answer # NoRes => gw[r].res = gw[r].answer

\* ------------------------------------- claims: notification service, Send

\* The answered requests in done have one record each and the table holds
\* nothing else: each was answered 200 with the id of a row of its own that
\* carries its user and type, the row's status is 'sent' if sendEmail
\* returned true and 'failed' otherwise, and the success flag of the
\* response is that outcome.
OneRecordEach(done) ==
    /\ \A r \in done :
        /\ snd[r].res.status = 200
        /\ snd[r].res.notificationId \in 1..Len(notifications)
        /\ LET row == notifications[snd[r].res.notificationId]
           IN  /\ row.user_id = snd[r].userId
               /\ row.type = snd[r].type
               /\ row.status = "sent" <=> snd[r].emailSent
               /\ row.status = "failed" <=> ~snd[r].emailSent
        /\ snd[r].res.success = snd[r].emailSent
    /\ \A r, q \in done :
        snd[r].res.notificationId = snd[q].res.notificationId => r = q
    /\ Len(notifications) = Cardinality(done)

\* C18 as stated: every answered Send whose type is one of the four templates
\* has exactly one record, with status and success flag as delivery went.
C18_ValidTypePersistsOne ==
    OneRecordEach({r \in SendReqs : /\ snd[r].pc = "done"
                                   /\ snd[r].type \in NotificationTypes})

\* C18 amended: every answered Send that passed the whole validation chain
\* (user id and type) has exactly one record, with status and success flag as
\* delivery went.
C18_AcceptedSendPersistsOne ==
    OneRecordEach({r \in SendReqs : /\ snd[r].pc = "done"
                                   /\ snd[r].userId >= 1
                                   /\ snd[r].type \in NotificationTypes})

\* C18 witness: one Send was delivered and one was not, and both are stored
C18_SentAndFailedStored ==
    \E r, q \in SendReqs :
        /\ snd[r].pc = "done" /\ snd[r].res.status = 200 /\ snd[r].emailSent
        /\ snd[q].pc = "done" /\ snd[q].res.status = 200 /\ ~snd[q].emailSent
        /\ notifications[snd[r].res.notificationId].status = "sent"
        /\ notifications[snd[q].res.notificationId].status = "failed"
        /\ Len(notifications) = 2

\* C19: every stored notification has one of the four types, and a Send with
\* any other type is answered 400 as soon as it arrives and is over: it never
\* reaches sendEmail or the INSERT.
C19_OnlyTemplateTypesStored ==
    /\ \A i \in 1..Len(notifications) :
        notifications[i].type \in {"booking_created", "payment_success",
                                   "payment_failed", "payment_refunded"}
    /\ \A r \in SendReqs :
        (/\ snd[r].pc # "idle"
         /\ snd[r].type \notin {"booking_created", "payment_success",
                                 "payment_failed", "payment_refunded"})
        => /\ snd[r].pc = "done"
           /\ snd[r].res.status = 400

\* C19 witness: a Send of type 'promo' for a valid user was answered 400 and
\* the only record is that of another request
C19_PromoRejected ==
    \E r, q \in SendReqs :
        /\ snd[r].type = "promo" /\ snd[r].userId = 1
        /\ snd[r].res.status = 400
        /\ snd[q].res.status = 200
        /\ Len(notifications) = 1
        /\ notifications[1].type = snd[q].type

\* ------------------------------------- claims: booking service, failures

\* C20: the step that answers a POST /bookings with 404 (unknown item) or 400
\* (party larger than the stored capacity) adds no booking row, changes no
\* available_slots, posts no notification and ends the request, which does
\* nothing afterwards.
C20_FailedBookingChangesNothing ==
    [][\A r \in BookingReqs :
        /\ (bk[r].pc = "get" /\ bk'[r].res.status \in {400, 404}) =>
                /\ bookings' = bookings
                /\ available_slots' = available_slots
                /\ notifications' = notifications
                /\ bk'[r].pc = "done"
                /\ bk'[r].notify = "none"
                /\ bk'[r].res.status = 404 <=> bk[r].serviceId \notin ServiceIds
        /\ (bk[r].pc = "done" /\ bk[r].res.status \in {400, 404}) =>
                bk'[r] = bk[r]]_vars

\* C20 witness: one request was answered 404 and one 400 for lack of
\* capacity, and the tables are as they were when the run started
C20_NotFoundAndNoCapacity ==
    \E r, q \in BookingReqs :
        /\ bk[r].pc = "done" /\ bk[r].res.status = 404
        /\ bk[q].pc = "done"
        /\ bk[q].res = [status |-> 400, error |-> "Not enough available slots"]
        /\ bookings = <<>>
        /\ available_slots = slots0

\* C21: the step that stores the row of a valid POST /bookings appends exactly
\* one row, whose status and payment_status are both 'pending', and leaves the
\* rows stored before as they were.
C21_CreatedPendingPending ==
    [][\A r \in BookingReqs :
        (bk[r].pc = "insert" /\ bk'[r].pc # "insert") =>
            /\ Len(bookings') = Len(bookings) + 1
            /\ SubSeq(bookings', 1, Len(bookings)) = bookings
            /\ bookings'[Len(bookings')].status = "pending"
            /\ bookings'[Len(bookings')].payment_status = "pending"
            /\ bk'[r].lastID = Len(bookings')]_vars

\* C21 witness: two valid requests, one with the party size left out, have
\* both stored their rows
C21_TwoRowsStored ==
    /\ Len(bookings) = 2
    /\ \E r, q \in BookingReqs :
        /\ r # q
        /\ bk[r].lastID = 1 /\ bk[r].body.guests = Omitted
        /\ bk[q].lastID = 2 /\ bk[q].body.guests = 2
    /\ \A i \in 1..2 : bookings[i].status = "pending"
                        /\ bookings[i].payment_status = "pending"

\* ----------------------------------- claims: payment service, concurrency

\* no request of the payment service is in flight and no callback failed
PaymentQuiescent ==
    /\ \A r \in ProcessReqs : /\ pay[r].pc \in {"idle", "done"}
                              /\ pay[r].bookingPut # "error"
                              /\ pay[r].notify # "error"
    /\ \A f \in RefundReqs : /\ rf[f].pc \in {"idle", "done"}
                             /\ rf[f].bookingPut # "error"
                             /\ rf[f].notify # "error"

\* the payment records of a booking
PaymentsOf(bookingId) ==
    {i \in 1..Len(payments) : payments[i].booking_id = bookingId}

\* C22: when nothing is in flight and no callback failed, a booking with
\* exactly one payment record has the payment_status that record's status
\* names.
C22_BookingAgreesWithPayment ==
    PaymentQuiescent =>
        \A b \in 1..Len(bookings) :
            Cardinality(PaymentsOf(b)) = 1 =>
                \A i \in PaymentsOf(b) :
                    bookings[b].payment_status = payments[i].status

\* the refund requests of a payment that were answered with success
RefundSuccesses(paymentId) ==
    {f \in RefundReqs : rf[f].paymentId = paymentId /\ rf[f].res.status = 200}

\* C23: for every payment at most one POST /refund request is answered with
\* success.
C23_AtMostOneRefundSucceeds ==
    \A i \in 1..Len(payments) :
        Cardinality(RefundSuccesses(payments[i].payment_id)) <= 1

\* C24: whenever a POST /refund has been answered with success, the stored
\* status of its payment is 'refunded'.
C24_SuccessMeansStoredRefunded ==
    \A f \in RefundReqs :
        rf[f].res.status = 200 =>
            \A i \in 1..Len(payments) :
                payments[i].payment_id = rf[f].paymentId =>
                    payments[i].status = "refunded"

\* the payment records of a booking that are stored as 'completed'
CompletedPaymentsOf(bookingId) ==
    {i \in PaymentsOf(bookingId) : payments[i].status = "completed"}

\* C25: for every booking id at most one payment record is stored as
\* 'completed'.
C25_AtMostOneCompletedPerBooking ==
    \A i \in 1..Len(payments) :
        Cardinality(CompletedPaymentsOf(payments[i].booking_id)) <= 1

\* ------------------------------------------ claims: booking service, updates

\* no POST /bookings has work left: its statements have all executed
NoBookingInFlight == \A r \in BookingReqs : bk[r].pc \in {"idle", "done"}

\* the guests of the first n booking rows that are of service s
RECURSIVE GuestsBooked(_, _)
GuestsBooked(s, n) ==
    IF n = 0 THEN 0
    ELSE (IF bookings[n].service_id = s THEN bookings[n].guests ELSE 0)
         + GuestsBooked(s, n - 1)

\* C26: whenever no POST /bookings is in flight, available_slots plus the
\* guests of all bookings of an item is the seeded capacity; and no step,
\* in particular no PUT of a status or payment status, raises available_slots.
C26_CapacityIsConserved ==
    /\ [](NoBookingInFlight =>
            \A s \in ServiceIds :
                available_slots[s] + GuestsBooked(s, Len(bookings)) = SeedSlots)
    /\ [][\A s \in ServiceIds : available_slots'[s] <= available_slots[s]]_vars

\* C26 witness: a party of two was booked, paid for in vain (the payment
\* status is 'failed' or 'refunded') and cancelled, and its two places stay
\* taken
C26_CancelledKeepsPlaces ==
    /\ NoBookingInFlight
    /\ \E i \in 1..Len(bookings) :
        /\ bookings[i].status = "cancelled"
        /\ bookings[i].payment_status \in {"failed", "refunded"}
        /\ bookings[i].guests = 2
        /\ available_slots[bookings[i].service_id] = SeedSlots - 2

\* C27: a POST /process or POST /refund requests its notification only after
\* its payment-status call to the booking service has succeeded; a request
\* whose call failed, or has not been answered yet, has requested none.
C27_NotifyOnlyAfterBookingPut ==
    /\ \A r \in ProcessReqs :
            pay[r].notify # "none" => pay[r].bookingPut = "ok"
    /\ \A f \in RefundReqs :
            rf[f].notify # "none" => rf[f].bookingPut = "ok"

\* C27 witness: a payment of an unknown booking and a refund whose call found
\* the booking service down have both ended without a notification, and the
\* payment that was refunded had requested its own
C27_FailedPutsNoNotification ==
    \E r, q \in ProcessReqs, f \in RefundReqs :
        /\ pay[r].pc = "done" /\ pay[r].bookingPut = "ok"
        /\ pay[r].notify = "ok"
        /\ pay[q].pc = "done" /\ pay[q].bookingPut = "error"
        /\ pay[q].notify = "none"
        /\ rf[f].pc = "done" /\ rf[f].bookingPut = "error"
        /\ rf[f].notify = "none"
        /\ rf[f].paymentId = r

\* C28: no step of POST /process or POST /refund, the payment-status calls
\* they make included, changes the status of a booking: the booking of a
\* completed payment is still 'pending'.
C28_PaymentFlowKeepsStatus ==
    [][/\ Len(bookings') = Len(bookings)
       /\ \A i \in 1..Len(bookings) : bookings'[i].status = bookings[i].status]_vars

\* C28 witness: the payment of booking 1 completed, the booking's payment
\* status says so, and the booking is still 'pending'
C28_PaidBookingStillPending ==
    \E r \in ProcessReqs :
        /\ pay[r].pc = "done" /\ pay[r].res.status = 200
        /\ pay[r].bookingPut = "ok"
        /\ bookings[pay[r].body.bookingId].payment_status = "completed"
        /\ bookings[pay[r].body.bookingId].status = "pending"

\* ----------------------------------- claims: notification service, stats

\* the sum of the counts of a GROUP BY result
RECURSIVE SumCounts(_)
SumCounts(byType) ==
    IF DOMAIN byType = {} THEN 0
    ELSE LET t == CHOOSE x \in DOMAIN byType : TRUE
         IN  byType[t] + SumCounts([u \in DOMAIN byType \ {t} |-> byType[u]])

\* C29: every response of GET /stats has total = sent + failed and total =
\* the sum of the per-type counts.
C29_StatsAddUp ==
    st.res.status = 200 =>
        /\ st.res.total = st.res.sent + st.res.failed
        /\ st.res.total = SumCounts(st.res.byType)

\* -------------------------------------------------- claims: AuthProvider

\* user and token are what localStorage holds
AgreesWithStorage ==
    /\ auth.token = localStorage.token
    /\ IF auth.user = Null THEN localStorage.user = Null
       ELSE /\ localStorage.user # Null
            /\ JsonParse(localStorage.user) = auth.user

\* C30: once the provider has mounted, user is non-null exactly when token is
\* non-null and both are what localStorage holds; a login or register that
\* succeeds sets both, one that fails changes nothing, and logout clears both.
C30_UserTokenStorageAgree ==
    /\ [](~auth.loading =>
            /\ (auth.user # Null <=> auth.token # Null)
            /\ AgreesWithStorage)
    /\ [][/\ \A c \in AuthCalls :
                (authCalls[c].pc = "await" /\ authCalls'[c].pc = "done") =>
                    IF authCalls'[c].returned
                    THEN /\ auth'.user # Null /\ auth'.token # Null
                         /\ auth'.token.userId = auth'.user.id
                    ELSE auth' = auth /\ localStorage' = localStorage
          /\ logout =>
                /\ auth'.user = Null /\ auth'.token = Null
                /\ localStorage' = EmptyStorage]_vars

\* C30 witness: with the session of user 1 restored from localStorage, a
\* register signed user 2 in, a login failed after that, and user 2 is still
\* signed in
C30_FailedLoginKeepsSession ==
    \E c, d \in AuthCalls :
        /\ authCalls[c].fn = "register" /\ authCalls[c].returned
        /\ authCalls[d].fn = "login" /\ authCalls[d].pc = "done"
        /\ ~authCalls[d].returned
        /\ ~auth.loading
        /\ auth.user # Null
        /\ auth.user.id = 2
        /\ localStorage.token = auth.token

====
